---- MODULE Spec2Model ----
(***************************************************************************)
(* Talk4Finance: the PowerBI question-answering backend.                   *)
(*                                                                         *)
(* Strings are sequences of one-character strings, so that strip, find,    *)
(* startswith, replace and the regular expressions of the source act on    *)
(* characters exactly as Python's do.                                      *)
(***************************************************************************)
EXTENDS Integers, Sequences, FiniteSets, TLC

VARIABLES
    \* QueryPowerBITool._clean_query: the raw query, its cleaned form, the
    \* cleaned form cleaned once more, and how far the calls have got
    raw_query, cleaned_query, recleaned_query, clean_pc

VARIABLES
    \* PowerBIAuthManager (one per process) and the threads that run
    \* PowerBIHelper.execute_query_with_retry against it
    token, token_expires_at, credential, token_lock, now, issued, th

VARIABLES fmt_result, fmt_output, fmt_pc
VARIABLES exec_query, exec_response, exec_result, exec_pc
VARIABLES tool_query, tool_cleaned, tool_error, tool_calls, tool_output, tool_pc
VARIABLES agent_pc, iterations, last_observation, agent_response, answer
VARIABLES match_question, match_output, match_pc
VARIABLES executions, zero_rows
VARIABLES rep_query, rep_cleaned, rep_submitted, rep_fixed, rep_diagnosis, rep_pc
VARIABLES users, tokens, active_connections, ws, calls, conversations, messages, asked, delivered

cleanVars == <<raw_query, cleaned_query, recleaned_query, clean_pc>>
authVars == <<token, token_expires_at, credential, token_lock, now, issued, th>>
fmtVars == <<fmt_result, fmt_output, fmt_pc>>
execVars == <<exec_query, exec_response, exec_result, exec_pc>>
toolVars == <<tool_query, tool_cleaned, tool_error, tool_calls, tool_output, tool_pc>>
agentVars == <<agent_pc, iterations, last_observation, agent_response, answer>>
matchVars == <<match_question, match_output, match_pc>>
resolveVars == <<executions, zero_rows>>
repairVars == <<rep_query, rep_cleaned, rep_submitted, rep_fixed, rep_diagnosis, rep_pc>>
sessionVars == <<users, tokens, active_connections, ws, calls, conversations, messages, asked, delivered>>
vars == <<cleanVars, authVars, fmtVars, execVars, toolVars, agentVars, matchVars, resolveVars, repairVars, sessionVars>>

\* what each component leaves alone: the variables of the others
notClean == <<authVars, fmtVars, execVars, toolVars, agentVars, matchVars, resolveVars, repairVars, sessionVars>>
notAuth == <<cleanVars, fmtVars, execVars, toolVars, agentVars, matchVars, resolveVars, repairVars, sessionVars>>
notFmt == <<cleanVars, authVars, execVars, toolVars, agentVars, matchVars, resolveVars, repairVars, sessionVars>>
notExec == <<cleanVars, fmtVars, toolVars, agentVars, matchVars, resolveVars, repairVars, sessionVars>>
notTool == <<cleanVars, fmtVars, agentVars, matchVars, resolveVars, repairVars, sessionVars>>
notAgent == <<cleanVars, authVars, fmtVars, execVars, toolVars, matchVars, resolveVars, repairVars, sessionVars>>
notMatch == <<cleanVars, authVars, fmtVars, execVars, toolVars, agentVars, resolveVars, repairVars, sessionVars>>
notResolve == <<cleanVars, authVars, fmtVars, execVars, toolVars, agentVars, matchVars, repairVars, sessionVars>>
notRepair == <<cleanVars, authVars, fmtVars, execVars, toolVars, agentVars, matchVars, resolveVars, sessionVars>>
notSession == <<cleanVars, authVars, fmtVars, execVars, toolVars, agentVars, matchVars, resolveVars, repairVars>>
\* the auth manager and the clock, without the threads
authRest == <<token, token_expires_at, credential, token_lock, now, issued>>

\* A value that is not yet there (Python's None).
None == "None"

(***************************************************************************)
(* Characters and strings                                                  *)
(***************************************************************************)
UpperLetters == <<"A","B","C","D","E","F","G","H","I","J","K","L","M",
                  "N","O","P","Q","R","S","T","U","V","W","X","Y","Z">>
LowerLetters == <<"a","b","c","d","e","f","g","h","i","j","k","l","m",
                  "n","o","p","q","r","s","t","u","v","w","x","y","z">>

Range(s) == {s[i] : i \in DOMAIN s}

\* [A-Za-z]
IsLetter(c) == c \in Range(UpperLetters) \cup Range(LowerLetters)

\* \s, and the characters str.strip() removes
IsSpace(c) == c \in {" ", "\n", "\t", "\r"}

UpperOf == [c \in Range(LowerLetters) |->
                UpperLetters[CHOOSE i \in DOMAIN LowerLetters : LowerLetters[i] = c]]
LowerOf == [c \in Range(UpperLetters) |->
                LowerLetters[CHOOSE i \in DOMAIN UpperLetters : UpperLetters[i] = c]]

\* str.upper() on one character
UpperChar(c) == IF c \in DOMAIN UpperOf THEN UpperOf[c] ELSE c

\* str.lower() on one character
LowerChar(c) == IF c \in DOMAIN LowerOf THEN LowerOf[c] ELSE c

Upper(s) == [i \in DOMAIN s |-> UpperChar(s[i])]
Lower(s) == [i \in DOMAIN s |-> LowerChar(s[i])]

\* s[a-1 : b] in Python terms: the characters at 1-based positions a..b
Slice(s, a, b) == IF a > b THEN <<>> ELSE SubSeq(s, a, b)

\* s[n:] : s without its first n characters
Drop(s, n) == Slice(s, n + 1, Len(s))

\* s[:-n] : s without its last n characters
DropLast(s, n) == Slice(s, 1, Len(s) - n)

\* str.startswith
StartsWith(s, p) == Len(s) >= Len(p) /\ SubSeq(s, 1, Len(p)) = p

\* str.endswith
EndsWith(s, p) == Len(s) >= Len(p) /\ SubSeq(s, Len(s) - Len(p) + 1, Len(s)) = p

\* p occurs in s at 1-based position i
MatchAt(s, p, i) ==
    i >= 1 /\ i + Len(p) - 1 <= Len(s) /\ \A k \in 1..Len(p) : s[i + k - 1] = p[k]

\* p occurs in s at position i, whatever the case (re.IGNORECASE)
MatchAtNoCase(s, p, i) == MatchAt(Upper(s), Upper(p), i)

\* "p in s"
Contains(s, p) == \E i \in 1..(Len(s) + 1) : MatchAt(s, p, i)

\* number of leading whitespace characters of s from position i on
RECURSIVE SpaceRun(_, _)
SpaceRun(s, i) == IF i <= Len(s) /\ IsSpace(s[i]) THEN 1 + SpaceRun(s, i + 1) ELSE 0

\* number of letters of s from position i on
RECURSIVE LetterRun(_, _)
LetterRun(s, i) == IF i <= Len(s) /\ IsLetter(s[i]) THEN 1 + LetterRun(s, i + 1) ELSE 0

\* number of trailing whitespace characters of s
RECURSIVE TrailingSpaces(_, _)
TrailingSpaces(s, i) == IF i >= 1 /\ IsSpace(s[i]) THEN 1 + TrailingSpaces(s, i - 1) ELSE 0

\* str.strip()
Strip(s) ==
    LET lead == SpaceRun(s, 1)
    IN  IF lead = Len(s) THEN <<>>
        ELSE Slice(s, lead + 1, Len(s) - TrailingSpaces(s, Len(s)))

\* str.find(c): Python's 0-based index of the first c, -1 when there is none
Find(s, c) ==
    IF \E i \in DOMAIN s : s[i] = c
    THEN (CHOOSE i \in DOMAIN s : s[i] = c /\ \A j \in 1..(i - 1) : s[j] # c) - 1
    ELSE -1

\* str.replace(old, new): every non-overlapping occurrence, left to right
RECURSIVE ReplaceFrom(_, _, _, _)
ReplaceFrom(s, old, new, i) ==
    IF i > Len(s) THEN <<>>
    ELSE IF MatchAt(s, old, i) THEN new \o ReplaceFrom(s, old, new, i + Len(old))
    ELSE <<s[i]>> \o ReplaceFrom(s, old, new, i + 1)

Replace(s, old, new) == ReplaceFrom(s, old, new, 1)

\* str.count(c) for one character
Count(s, c) == Cardinality({i \in DOMAIN s : s[i] = c})

(***************************************************************************)
(* Literals of the query tool                                              *)
(***************************************************************************)
EVALUATE == <<"E","V","A","L","U","A","T","E">>
\* The backquote character cannot be written in a string of this module: it is
\* the one-character string named BQ.
BQ == "BACKQUOTE"
Backticks == <<BQ, BQ, BQ>>
DQ == "\""
SQ == "'"

(***************************************************************************)
(* The regular expressions of _clean_query                                 *)
(***************************************************************************)
\* Length of the match of  EVALUATE\s+[A-Za-z]+\s+  (IGNORECASE) at position
\* i, 0 when it does not match there.  \s+ and [A-Za-z]+ are greedy and the
\* three runs are of disjoint character classes, so the match is the keyword,
\* the whole whitespace run, the whole letter run and the whole whitespace
\* run after it.
TagMatchLen(s, i) ==
    IF ~MatchAtNoCase(s, EVALUATE, i) THEN 0
    ELSE LET s1 == SpaceRun(s, i + 8)
             w  == LetterRun(s, i + 8 + s1)
             s2 == SpaceRun(s, i + 8 + s1 + w)
         IN  IF s1 >= 1 /\ w >= 1 /\ s2 >= 1 THEN 8 + s1 + w + s2 ELSE 0

\* re.sub(r'EVALUATE\s+[A-Za-z]+\s+', 'EVALUATE ', query, flags=re.IGNORECASE)
RECURSIVE SubTagFrom(_, _)
SubTagFrom(s, i) ==
    IF i > Len(s) THEN <<>>
    ELSE IF TagMatchLen(s, i) > 0
         THEN EVALUATE \o <<" ">> \o SubTagFrom(s, i + TagMatchLen(s, i))
         ELSE <<s[i]>> \o SubTagFrom(s, i + 1)

SubTag(s) == SubTagFrom(s, 1)

\* re.search(r'EVALUATE\s+EVALUATE', query, flags=re.IGNORECASE)
HasNestedEvaluate(s) ==
    \E i \in DOMAIN s :
        /\ MatchAtNoCase(s, EVALUATE, i)
        /\ \E k \in 1..SpaceRun(s, i + 8) : MatchAtNoCase(s, EVALUATE, i + 8 + k)

\* re.sub(r'EVALUATE\s+', '', query, count=1, flags=re.IGNORECASE):
\* the leftmost keyword that whitespace follows goes, with all that whitespace
RemoveFirstEvaluate(s) ==
    LET hits == {i \in DOMAIN s : MatchAtNoCase(s, EVALUATE, i) /\ SpaceRun(s, i + 8) >= 1}
    IN  IF hits = {} THEN s
        ELSE LET i == CHOOSE h \in hits : \A g \in hits : h <= g
             IN  Slice(s, 1, i - 1) \o Drop(s, i + 7 + SpaceRun(s, i + 8))

\* re.search(r'^EVALUATE', query, re.IGNORECASE)
StartsWithEvaluate(s) == MatchAtNoCase(s, EVALUATE, 1)

(***************************************************************************)
(* QueryPowerBITool._clean_query                                           *)
(***************************************************************************)
\* the fence step: if query.startswith(Backticks) ... elif query.endswith(Backticks)
StripFence(q) ==
    IF StartsWith(q, Backticks)
    THEN LET first_newline == Find(q, "\n")
         IN  IF first_newline > 0
             THEN LET inner == Strip(Drop(q, first_newline))
                  IN  IF EndsWith(inner, Backticks)
                      THEN Strip(DropLast(inner, 3))
                      ELSE inner
             ELSE q
    ELSE IF EndsWith(q, Backticks) THEN Strip(DropLast(q, 3))
    ELSE q

\* the quote step: one layer of surrounding quotes
StripQuotes(q) ==
    IF \/ (StartsWith(q, <<DQ>>) /\ EndsWith(q, <<DQ>>))
       \/ (StartsWith(q, <<SQ>>) /\ EndsWith(q, <<SQ>>))
    THEN Strip(Slice(q, 2, Len(q) - 1))
    ELSE q

\* the nested-EVALUATE step
DropNestedEvaluate(q) == IF HasNestedEvaluate(q) THEN RemoveFirstEvaluate(q) ELSE q

\* the "ensure the query starts with EVALUATE" step
EnsureEvaluate(q) == IF StartsWithEvaluate(q) THEN q ELSE EVALUATE \o <<"\n">> \o q

\* query.replace('""', '"')
UnescapeQuotes(q) == Replace(q, <<DQ, DQ>>, <<DQ>>)

\* query.replace('\t', '    ')
ExpandTabs(q) == Replace(q, <<"\t">>, <<" ", " ", " ", " ">>)

_clean_query(query) ==
    ExpandTabs(UnescapeQuotes(EnsureEvaluate(DropNestedEvaluate(
        SubTag(StripQuotes(StripFence(Strip(query))))))))

(***************************************************************************)
(* The raw queries the reasoning loop hands to the tool                    *)
(***************************************************************************)
\* How many lexemes a free-form raw query is made of, at most.
MaxLexemes == 3

DAXTag == <<"D","A","X">>
evaluate_lc == <<"e","v","a","l","u","a","t","e">>

\* query bodies: a table constructor and a VAR/RETURN body
Body_Table  == <<"{","1","}">>
Body_Var    == <<"V","A","R"," ","x","=","1"," ","R","E","T","U","R","N"," ","{","x","}">>
Bodies == {Body_Table, Body_Var}

\* a string literal that holds one escaped quote character
StringLiteral == <<"{",DQ,DQ,DQ,DQ,"}">>

\* what stands before the body: the keyword, the keyword in lower case, the
\* keyword with a language tag after it, a tag line before the real query
Heads == { EVALUATE \o <<" ">>,
           EVALUATE \o <<"\n">>,
           evaluate_lc \o <<" ">>,
           EVALUATE \o <<" ">> \o DAXTag \o <<" ">>,
           EVALUATE \o <<" ">> \o DAXTag \o <<"\n">> \o EVALUATE \o <<" ">>,
           <<>> }

Quotes == {<<>>, <<DQ>>, <<SQ>>}

FenceKinds == {"none", "lines", "tagged_lines", "one_line", "tagged_one_line"}

\* q inside a code fence of the given kind
Fenced(kind, q) ==
    CASE kind = "none"            -> q
      [] kind = "lines"           -> Backticks \o <<"\n">> \o q \o <<"\n">> \o Backticks
      [] kind = "tagged_lines"    -> Backticks \o DAXTag \o <<"\n">> \o q \o <<"\n">> \o Backticks
      [] kind = "one_line"        -> Backticks \o q \o Backticks
      [] kind = "tagged_one_line" -> Backticks \o DAXTag \o <<" ">> \o q \o Backticks

\* q inside one layer of quote characters
Quoted(quote, q) == quote \o q \o quote

\* q inside surrounding whitespace
Padded(pad, q) == IF pad THEN <<" ">> \o q \o <<" ", "\n">> ELSE q

\* A query body wrapped in noise: the quotes inside the fence or around it.
Wrap(body, head, quote, kind, quotes_outside, pad) ==
    Padded(pad,
        IF quotes_outside
        THEN Quoted(quote, Fenced(kind, head \o body))
        ELSE Fenced(kind, Quoted(quote, head \o body)))

WrappedQueries ==
    { Wrap(body, head, quote, kind, outside, pad) :
        body \in Bodies, head \in Heads, quote \in Quotes, kind \in FenceKinds,
        outside \in BOOLEAN, pad \in BOOLEAN }

Lexemes == { EVALUATE, evaluate_lc, DAXTag, <<"x">>, <<" ">>, <<"\n">>, <<"\t">>,
             Backticks, <<DQ>>, <<SQ>>, Body_Table, StringLiteral }

\* every concatenation of at most n lexemes
RECURSIVE LexemeStrings(_)
LexemeStrings(n) ==
    IF n = 0 THEN {<<>>}
    ELSE LET shorter == LexemeStrings(n - 1)
         IN  shorter \cup {l \o t : l \in Lexemes, t \in shorter}

\* _run returns "Error: Query is required." for an empty query before it
\* cleans anything, so _clean_query never sees the empty string; the raw
\* queries here all hold something besides whitespace
RawQueries == {q \in WrappedQueries \cup LexemeStrings(MaxLexemes) : Strip(q) # <<>>}

(***************************************************************************)
(* Cleaning a raw query, and cleaning the result once more                 *)
(***************************************************************************)
CleanInit ==
    /\ raw_query \in RawQueries
    /\ cleaned_query = <<>>
    /\ recleaned_query = <<>>
    /\ clean_pc = "raw"

CleanIdle ==
    /\ raw_query = <<>>
    /\ cleaned_query = <<>>
    /\ recleaned_query = <<>>
    /\ clean_pc = "idle"

\* cleaned_query = self._clean_query(query)
CleanQuery ==
    /\ clean_pc = "raw"
    /\ cleaned_query' = _clean_query(raw_query)
    /\ clean_pc' = "cleaned"
    /\ UNCHANGED <<raw_query, recleaned_query, notClean>>

\* the cleaned query handed to _clean_query again
CleanAgain ==
    /\ clean_pc = "cleaned"
    /\ recleaned_query' = _clean_query(cleaned_query)
    /\ clean_pc' = "recleaned"
    /\ UNCHANGED <<raw_query, cleaned_query, notClean>>

(***************************************************************************)
(* PowerBIAuthManager.get_token and PowerBIHelper.execute_query_with_retry *)
(*                                                                         *)
(* Time is in minutes.  A token is the number of the identity provider     *)
(* call that produced it, NoToken when there is none; issued counts the    *)
(* calls the provider has answered.  A thread is in get_token              *)
(* from one of five places: get_headers called on its own, refresh_token_  *)
(* if_needed called on its own, and the three calls that                   *)
(* execute_query_with_retry makes (the headers before the loop, the forced *)
(* refresh after a 401, the headers after that refresh).                   *)
(***************************************************************************)
\* How many threads there are, how far the clock runs, and how many calls
\* the identity provider answers.
NThreads == 2
MaxNow == 2
MaxIssued == 3

Threads == 1..NThreads
\* the thread that serves the request
Requester == CHOOSE t \in Threads : \A u \in Threads : t <= u
NoThread == 0
NoToken == 0
NoTime == -1

\* timedelta(minutes=5): the validity buffer
BufferMinutes == 5
\* timedelta(minutes=50): the expiry assumed when the token carries none
DefaultLifetimeMinutes == 50
\* execute_query_with_retry(..., max_retries=1)
max_retries == 1

\* the lifetimes the identity provider grants: a token that is stale at once
\* and a token that gets stale as the clock runs
Lifetimes == {5, 7}

\* the engine's answers to a request: success, unauthorized, any other failure
Statuses == {200, 401, 400}

IdleThread ==
    [ pc |-> "idle", ret |-> "none", force |-> FALSE, current_time |-> 0,
      attempt |-> 0, headers |-> NoToken, response |-> 0, result |-> "none",
      \* what the call of execute_query_with_retry has done so far: its sends
      \* as <<attempt, token, answer>> (answer 0: the send raised), its forced
      \* refreshes, the token the forced refresh returned, and the token of
      \* the headers fetched after that refresh
      sent |-> <<>>, forced |-> 0, refreshed |-> NoToken, reheaded |-> NoToken ]

AuthInit ==
    /\ token = NoToken
    /\ token_expires_at = NoTime
    /\ credential = FALSE
    /\ token_lock = NoThread
    /\ now = 0
    /\ issued = 0
    /\ th = [t \in Threads |-> IdleThread]

AuthIdle ==
    /\ token = NoToken
    /\ token_expires_at = NoTime
    /\ credential = FALSE
    /\ token_lock = NoThread
    /\ now = 0
    /\ issued = 0
    /\ th = <<>>

\* get_token without its lock
LockFree_NoLock == TRUE

\* "with self.token_lock": the lock can be taken
LockFree == token_lock = NoThread

\* the validity test without its buffer: good until the expiry itself
TokenValid_NoBuffer(force_refresh, current_time) ==
    /\ ~force_refresh
    /\ token # NoToken
    /\ token_expires_at # NoTime
    /\ current_time < token_expires_at

\* the cached token is still good (with the 5-minute buffer)
TokenValid(force_refresh, current_time) ==
    /\ ~force_refresh
    /\ token # NoToken
    /\ token_expires_at # NoTime
    /\ current_time < token_expires_at - BufferMinutes

\* execute_query_with_retry is over: its locals are gone, what it returned or
\* raised and what it did stay
Finished(r, how) ==
    [r EXCEPT !.pc = "done", !.result = how, !.ret = "none", !.force = FALSE,
              !.attempt = 0, !.headers = NoToken]

\* the loop of execute_query_with_retry goes to its next attempt, or ends and
\* returns the last response
NextAttempt(r) ==
    IF r.attempt + 1 <= max_retries
    THEN [r EXCEPT !.attempt = @ + 1, !.pc = "send"]
    ELSE Finished(r, "returned")

\* the refresh tried on every 401, the last attempt's too
ShouldRefresh_OnEvery401(status, attempt) == status = 401

\* "if response.status_code == 401 and attempt < max_retries"
ShouldRefresh(status, attempt) == status = 401 /\ attempt < max_retries

\* the except branch of the loop: raise on the last attempt, else sleep and go on
RequestFailed(r) ==
    IF r.attempt = max_retries
    THEN Finished(r, "raised")
    ELSE NextAttempt(r)

\* get_token returns tok to the place that called it
TokenReturned(r, tok) ==
    CASE r.ret = "get_headers" ->
            \* get_headers called on its own: the caller has its headers
            [r EXCEPT !.headers = tok, !.pc = "idle", !.ret = "none"]
      [] r.ret = "refresh_only" ->
            \* refresh_token_if_needed called on its own returns True
            [r EXCEPT !.pc = "idle", !.force = FALSE, !.ret = "none"]
      [] r.ret = "first_headers" ->
            \* headers = self.get_headers(), before the loop
            [r EXCEPT !.headers = tok, !.pc = "send", !.attempt = 0, !.ret = "none"]
      [] r.ret = "refresh" ->
            \* refresh_token_if_needed returned True: headers = self.get_headers()
            [r EXCEPT !.refreshed = tok, !.pc = "get_token", !.force = FALSE,
                      !.ret = "retry_headers"]
      [] r.ret = "retry_headers" ->
            \* the new headers are in place: continue
            NextAttempt([r EXCEPT !.headers = tok, !.reheaded = tok, !.ret = "none"])

\* get_token raises to the place that called it
TokenRaised(r) ==
    CASE r.ret = "get_headers" ->
            [r EXCEPT !.headers = NoToken, !.pc = "idle", !.ret = "none"]
      [] r.ret = "refresh_only" ->
            \* refresh_token_if_needed called on its own returns False
            [r EXCEPT !.pc = "idle", !.force = FALSE, !.ret = "none"]
      [] r.ret = "first_headers" ->
            \* outside the try of the loop: the call raises
            Finished(r, "raised")
      [] r.ret = "refresh" ->
            \* refresh_token_if_needed returns False: return response
            Finished(r, "returned")
      [] r.ret = "retry_headers" ->
            \* inside the try of the loop
            RequestFailed([r EXCEPT !.ret = "none"])

\* PowerBIHelper.get_headers is called on its own
GetHeaders(t) ==
    /\ th[t].pc = "idle"
    /\ th' = [th EXCEPT ![t] = [@ EXCEPT !.pc = "get_token", !.force = FALSE,
                                         !.ret = "get_headers"]]
    /\ UNCHANGED <<token, token_expires_at, credential, token_lock, now, issued, notAuth>>

\* PowerBIHelper.refresh_token_if_needed is called on its own with a 401
RefreshIfNeeded(t) ==
    /\ th[t].pc = "idle"
    /\ th' = [th EXCEPT ![t] = [@ EXCEPT !.pc = "get_token", !.force = TRUE,
                                         !.ret = "refresh_only"]]
    /\ UNCHANGED <<token, token_expires_at, credential, token_lock, now, issued, notAuth>>

\* execute_query_with_retry is called: headers = self.get_headers()
StartRequest(t) ==
    /\ th[t].pc = "idle"
    /\ th' = [th EXCEPT ![t] = [IdleThread EXCEPT !.pc = "get_token", !.force = FALSE,
                                                  !.ret = "first_headers"]]
    /\ UNCHANGED <<token, token_expires_at, credential, token_lock, now, issued, notAuth>>

\* get_token takes the lock and finds the cached token good: it returns it
GetTokenCached(t) ==
    /\ th[t].pc = "get_token"
    /\ LockFree
    /\ TokenValid(th[t].force, now)
    /\ th' = [th EXCEPT ![t] = TokenReturned(@, token)]
    /\ UNCHANGED <<token, token_expires_at, credential, token_lock, now, issued, notAuth>>

\* get_token takes the lock and finds no good token (or is forced): it asks
\* the identity provider, keeping the lock while the call is in flight
GetTokenRefresh(t) ==
    /\ th[t].pc = "get_token"
    /\ LockFree
    /\ ~TokenValid(th[t].force, now)
    /\ issued < MaxIssued
    /\ token_lock' = t
    /\ credential' = TRUE
    /\ th' = [th EXCEPT ![t] = [@ EXCEPT !.pc = "idp", !.current_time = now]]
    /\ UNCHANGED <<token, token_expires_at, now, issued, notAuth>>

\* the identity provider answers with a token that carries its expiry
IdpGrants(t) ==
    /\ th[t].pc = "idp"
    /\ \E life \in Lifetimes :
        /\ token' = issued + 1
        /\ token_expires_at' = now + life
    /\ issued' = issued + 1
    /\ token_lock' = NoThread
    /\ th' = [th EXCEPT ![t] = TokenReturned([@ EXCEPT !.current_time = 0], issued + 1)]
    /\ UNCHANGED <<credential, now, notAuth>>

\* the identity provider answers with a token that carries no expires_on
IdpGrantsNoExpiry(t) ==
    /\ th[t].pc = "idp"
    /\ token' = issued + 1
    /\ token_expires_at' = th[t].current_time + DefaultLifetimeMinutes
    /\ issued' = issued + 1
    /\ token_lock' = NoThread
    /\ th' = [th EXCEPT ![t] = TokenReturned([@ EXCEPT !.current_time = 0], issued + 1)]
    /\ UNCHANGED <<credential, now, notAuth>>

\* the identity provider call fails: the cache is reset and get_token raises
IdpFails(t) ==
    /\ th[t].pc = "idp"
    /\ token' = NoToken
    /\ token_expires_at' = NoTime
    /\ issued' = issued + 1
    /\ token_lock' = NoThread
    /\ th' = [th EXCEPT ![t] = TokenRaised([@ EXCEPT !.current_time = 0])]
    /\ UNCHANGED <<credential, now, notAuth>>

\* requests.post / requests.get answers with a status
SendAnswered(t) ==
    /\ th[t].pc = "send"
    /\ \E status \in Statuses :
        LET r == [th[t] EXCEPT !.response = status,
                               !.sent = Append(@, <<th[t].attempt, th[t].headers, status>>)]
        IN  th' = [th EXCEPT ![t] =
                IF ShouldRefresh(status, r.attempt)
                THEN \* refresh_token_if_needed: get_token(force_refresh=True)
                     [r EXCEPT !.pc = "get_token", !.force = TRUE, !.ret = "refresh",
                               !.forced = @ + 1]
                ELSE Finished(r, "returned")]
    /\ UNCHANGED <<token, token_expires_at, credential, token_lock, now, issued, notAuth>>

\* requests.post / requests.get raises
SendRaises(t) ==
    /\ th[t].pc = "send"
    /\ th' = [th EXCEPT ![t] =
            RequestFailed([@ EXCEPT !.sent = Append(@, <<th[t].attempt, th[t].headers, 0>>)])]
    /\ UNCHANGED <<token, token_expires_at, credential, token_lock, now, issued, notAuth>>

\* a minute passes
Tick ==
    /\ now < MaxNow
    /\ now' = now + 1
    /\ UNCHANGED <<token, token_expires_at, credential, token_lock, issued, th, notAuth>>

(***************************************************************************)
(* Query results: values, records, and how numbers are written             *)
(*                                                                         *)
(* A number is held in cents (hundredths), so that the two decimals of the *)
(* renderings are exact.  A record is a sequence of <<column, value>>      *)
(* pairs in the order of the engine's columns, one pair per column name.   *)
(***************************************************************************)
Null == [k |-> "null", c |-> 0, s |-> <<>>]
Num(cents) == [k |-> "num", c |-> cents, s |-> <<>>]
Str(chars) == [k |-> "str", c |-> 0, s |-> chars]

\* isinstance(value, (int, float))
IsNumber(v) == v.k = "num"

DigitChars == <<"0","1","2","3","4","5","6","7","8","9">>
IsDigit(ch) == ch \in Range(DigitChars)
DigitValue(ch) == (CHOOSE i \in DOMAIN DigitChars : DigitChars[i] = ch) - 1

Abs(n) == IF n < 0 THEN -n ELSE n

\* the decimal digits of n >= 0
RECURSIVE Digits(_)
Digits(n) == IF n < 10 THEN <<DigitChars[n + 1]>> ELSE Digits(n \div 10) \o <<DigitChars[(n % 10) + 1]>>

\* the decimal digits of n >= 0 with a comma before every group of three
RECURSIVE GroupedDigits(_)
GroupedDigits(n) ==
    IF n < 1000 THEN Digits(n)
    ELSE LET low == n % 1000
         IN  GroupedDigits(n \div 1000) \o <<",">> \o
             <<DigitChars[(low \div 100) + 1], DigitChars[((low \div 10) % 10) + 1],
               DigitChars[(low % 10) + 1]>>

TwoDigits(n) == <<DigitChars[(n \div 10) + 1], DigitChars[(n % 10) + 1]>>

Sign(n) == IF n < 0 THEN <<"-">> ELSE <<>>

\* n / d rounded to the nearest integer, a tie to the even one (n, d >= 0).
\* The values of this model are never at a tie, where the digit Python
\* prints depends on the binary form of the float.
RoundDiv(n, d) ==
    LET q == n \div d
        r == n % d
    IN  IF 2 * r > d \/ (2 * r = d /\ q % 2 = 1) THEN q + 1 ELSE q

\* f"{value:.2f}"
Fixed2(cents) ==
    Sign(cents) \o Digits(Abs(cents) \div 100) \o <<".">> \o TwoDigits(Abs(cents) % 100)

\* f"{value:,.2f}"
Grouped2(cents) ==
    Sign(cents) \o GroupedDigits(Abs(cents) \div 100) \o <<".">> \o TwoDigits(Abs(cents) % 100)

\* f"{value/1_000_000:.2f}"
Millions2(cents) ==
    LET h == RoundDiv(Abs(cents), 1000000)
    IN  Sign(cents) \o Digits(h \div 100) \o <<".">> \o TwoDigits(h % 100)

\* f"{value:.1f}"
Fixed1(cents) ==
    LET t == RoundDiv(Abs(cents), 10)
    IN  Sign(cents) \o Digits(t \div 10) \o <<".">> \o <<DigitChars[(t % 10) + 1]>>

NA == <<"N","/","A">>
NoneText == <<"N","o","n","e">>
Euro == "€"

\* value.replace(',', '').replace('€', '').replace('%', '').strip()
CleanValue(s) == Strip(Replace(Replace(Replace(s, <<",">>, <<>>), <<Euro>>, <<>>), <<"%">>, <<>>))

\* the texts that stand for no value
NullTexts == { <<"n","u","l","l">>, <<"n","o","n","e">>, <<"n","/","a">> }

\* float(clean_value) succeeds: an optional sign, digits, and at most two
\* decimals (the strings of this model hold no exponent, inf or nan)
RECURSIVE AllDigits(_)
AllDigits(s) == s = <<>> \/ (IsDigit(Head(s)) /\ AllDigits(Tail(s)))

Unsigned(s) == IF s # <<>> /\ Head(s) \in {"-", "+"} THEN Tail(s) ELSE s

IsFloatText(s) ==
    LET u == Unsigned(s)
        dot == Find(u, ".")
    IN  IF dot = -1 THEN u # <<>> /\ AllDigits(u)
        ELSE /\ AllDigits(Slice(u, 1, dot))
             /\ AllDigits(Drop(u, dot + 1))
             /\ Len(u) > 1
             /\ Len(u) - (dot + 1) <= 2

RECURSIVE DigitsValue(_)
DigitsValue(s) == IF s = <<>> THEN 0 ELSE 10 * DigitsValue(DropLast(s, 1)) + DigitValue(s[Len(s)])

\* float(clean_value), in cents
FloatCents(s) ==
    LET u == Unsigned(s)
        dot == Find(u, ".")
        whole == IF dot = -1 THEN u ELSE Slice(u, 1, dot)
        frac == IF dot = -1 THEN <<>> ELSE Drop(u, dot + 1)
        frac2 == IF Len(frac) = 0 THEN <<"0","0">>
                 ELSE IF Len(frac) = 1 THEN frac \o <<"0">> ELSE frac
        mag == 100 * DigitsValue(whole) + DigitsValue(frac2)
    IN  IF s # <<>> /\ Head(s) = "-" THEN -mag ELSE mag

\* the number rendered as a percentage
PercentText(cents) == Fixed1(cents) \o <<"%">>

\* the band taken from the value with its sign
InMillions_Signed(cents) == cents >= 100000000

\* "abs(value) >= 1_000_000"
InMillions(cents) == Abs(cents) >= 100000000

\* "abs(value) >= 1_000"
InThousands(cents) == Abs(cents) >= 100000

\* the number rendered as an amount in euros, by the band of its magnitude
EuroText(cents) ==
    IF InMillions(cents) THEN <<Euro>> \o Millions2(cents) \o <<"M">>
    ELSE IF InThousands(cents) THEN <<Euro>> \o Grouped2(cents)
    ELSE <<Euro>> \o Fixed2(cents)

\* str(value) of a value that is no number
StrOf(v) ==
    CASE v.k = "null" -> NoneText
      [] v.k = "str"  -> v.s

\* QueryPowerBITool._format_financial_value
_format_financial_value(value, is_percentage) ==
    IF value.k = "null" THEN NA
    ELSE IF value.k = "str"
    THEN LET clean_value == CleanValue(value.s)
         IN  IF clean_value = <<>> \/ Lower(clean_value) \in NullTexts THEN NA
             ELSE IF ~IsFloatText(clean_value) THEN StrOf(value)
             ELSE IF is_percentage THEN PercentText(FloatCents(clean_value))
             ELSE EuroText(FloatCents(clean_value))
    ELSE IF is_percentage THEN PercentText(value.c)
    ELSE EuroText(value.c)

\* f"{value:,.2f}": a number of a column that is neither financial nor a percentage
PlainNumberText(v) == Grouped2(v.c)

(***************************************************************************)
(* Column vocabularies of the result formatter                             *)
(***************************************************************************)
\* "any(keyword in text for keyword in keywords)"
AnyIn(keywords, text) == \E keyword \in keywords : Contains(text, keyword)

\* _detect_financial_columns: financial_keywords
financial_keywords ==
    { <<"r","e","v","e","n","u","e">>, <<"r","e","v","e","n","u">>, <<"c","a">>,
      <<"c","h","i","f","f","r","e">>, <<"a","f","f","a","i","r","e","s">>, <<"m","a","r","g","i","n">>,
      <<"m","a","r","g","e">>, <<"m","b">>, <<"g","r","o","s","s">>, <<"b","r","u","t","e">>,
      <<"b","u","d","g","e","t">>, <<"a","c","t","u","a","l">>, <<"r","é","e","l">>, <<"r","e","e","l">>,
      <<"c","o","s","t">>, <<"c","o","û","t">>, <<"c","o","u","t">>, <<"c","h","a","r","g","e">>,
      <<"e","x","p","e","n","s","e">>, <<"p","r","o","f","i","t">>, <<"b","é","n","é","f","i","c","e">>,
      <<"b","e","n","e","f","i","c","e">>, <<"r","é","s","u","l","t","a","t">>,
      <<"r","e","s","u","l","t","a","t">>, <<"r","e","x">>, <<"m","o","n","t","a","n","t">>,
      <<"a","m","o","u","n","t">>, <<"v","a","l","u","e">>, <<"v","a","l","e","u","r">>,
      <<"t","o","t","a","l">>, <<"s","u","m">>, <<"s","o","m","m","e">>,
      <<"d","i","f","f","e","r","e","n","c","e">>, <<"d","i","f","f","é","r","e","n","c","e">>,
      <<"v","a","r","i","a","n","c","e">>, <<"é","c","a","r","t">>, <<"e","c","a","r","t">>,
      <<"p","r","i","c","e">>, <<"p","r","i","x">>, <<"t","a","r","i","f">> }

\* _detect_financial_columns: percentage_keywords
percentage_keywords ==
    { <<"p","e","r","c","e","n","t","a","g","e">>, <<"p","o","u","r","c","e","n","t","a","g","e">>,
      <<"p","e","r","c","e","n","t">>, <<"p","c","t">>, <<"%">>, <<"r","a","t","e">>, <<"t","a","u","x">>,
      <<"r","a","t","i","o">>, <<"c","h","a","n","g","e">>, <<"g","r","o","w","t","h">>,
      <<"c","r","o","i","s","s","a","n","c","e">>, <<"v","a","r","i","a","t","i","o","n">>,
      <<"e","v","o","l","u","t","i","o","n">>, <<"é","v","o","l","u","t","i","o","n">> }

\* _format_results, the scalar case: the keywords of is_percentage
scalar_percentage_keywords ==
    { <<"p","e","r","c","e","n","t","a","g","e">>, <<"p","o","u","r","c","e","n","t","a","g","e">>,
      <<"p","e","r","c","e","n","t">>, <<"p","c","t">>, <<"%">>, <<"c","h","a","n","g","e">>,
      <<"g","r","o","w","t","h">>, <<"c","r","o","i","s","s","a","n","c","e">> }

\* _format_results, the scalar case: the keywords of is_financial
scalar_financial_keywords ==
    { <<"r","e","v","e","n","u","e">>, <<"r","e","v","e","n","u">>, <<"c","a">>,
      <<"m","a","r","g","i","n">>, <<"m","a","r","g","e">>, <<"b","u","d","g","e","t">>,
      <<"c","o","s","t">>, <<"c","o","û","t">>, <<"m","o","n","t","a","n","t">>, <<"t","o","t","a","l">> }

\* _format_results, case 2: the terms that make a result a time series
time_series_terms ==
    { <<"m","o","i","s">>, <<"d","a","t","e">>, <<"m","o","n","t","h">>, <<"y","e","a","r">>,
      <<"a","n","n","é","e">> }

\* _format_results, case 3: the terms that make a result an entity comparison
bu_comparison_terms ==
    { <<"b","u">>, <<"b","u","s","i","n","e","s","s">>, <<"u","n","i","t">>,
      <<"v","a","r","i","a","n","c","e">>, <<"b","u","d","g","e","t">> }

\* _format_time_series_enhanced: the terms of a time column
time_column_terms ==
    { <<"m","o","i","s">>, <<"d","a","t","e">>, <<"m","o","n","t","h">>, <<"y","e","a","r">>,
      <<"a","n","n","é","e">>, <<"t","r","i","m","e","s","t","r","e">>,
      <<"s","e","m","e","s","t","r","e">>, <<"j","o","u","r">>, <<"d","a","y">> }

\* _format_bu_comparison: the keywords of a financial value
bu_financial_keywords ==
    { <<"r","e","v","e","n","u","e">>, <<"b","u","d","g","e","t">>, <<"v","a","r","i","a","n","c","e">>,
      <<"c","a">>, <<"m","b">>, <<"m","o","n","t","a","n","t">> }

kw_bu == <<"b","u">>
kw_business == <<"b","u","s","i","n","e","s","s">>
kw_revenue == <<"r","e","v","e","n","u","e">>
kw_ca == <<"c","a">>
kw_revenu == <<"r","e","v","e","n","u">>
kw_budget == <<"b","u","d","g","e","t">>
kw_variance == <<"v","a","r","i","a","n","c","e">>
kw_difference == <<"d","i","f","f","e","r","e","n","c","e">>
kw_dif == <<"d","i","f">>

\* col_lower.endswith('(%)') or col_lower.endswith('%')
EndsWithPercent(col_lower) == EndsWith(col_lower, <<"(","%",")">>) \/ EndsWith(col_lower, <<"%">>)

\* _detect_financial_columns: col goes to percentage_columns
IsPercentageColumn(col) ==
    LET col_lower == Lower(col)
    IN  \/ AnyIn(percentage_keywords, col_lower)
        \/ EndsWithPercent(col_lower)
        \/ Contains(col_lower, <<"c","h","a","n","g","e">>)
        \/ Contains(col_lower, <<"g","r","o","w","t","h">>)
        \/ Contains(col_lower, <<"c","r","o","i","s","s","a","n","c","e">>)

(***************************************************************************)
(* Records and formatted output                                            *)
(*                                                                         *)
(* The formatted text is kept in its parts: the shape (which formatter     *)
(* wrote it), and per bullet its title and its "  - column: text" lines.   *)
(* A line also tells the value it renders, which branch of the formatter   *)
(* wrote its text, and the trend indicator that follows the text.          *)
(***************************************************************************)
\* list(row.keys())
Keys(row) == [i \in DOMAIN row |-> row[i][1]]

HasKey(row, col) == \E i \in DOMAIN row : row[i][1] = col

\* row[col]
RowAt(row, col) == row[CHOOSE i \in DOMAIN row : row[i][1] = col][2]

\* row.get(col, default)
RowGet(row, col, default) == IF HasKey(row, col) THEN RowAt(row, col) ELSE default

Line(col, kind, value, text, trend) ==
    [col |-> col, kind |-> kind, value |-> value, text |-> text, trend |-> trend]
Block(title, lines) == [title |-> title, lines |-> lines]
Output(shape, text, blocks) == [shape |-> shape, text |-> text, blocks |-> blocks]

\* the lines and blocks a loop with "continue" leaves out
RECURSIVE Compact(_)
Compact(s) ==
    IF s = <<>> THEN <<>>
    ELSE IF Head(s) = <<>> THEN Compact(Tail(s))
    ELSE <<Head(s)[1]>> \o Compact(Tail(s))

\* "str(value) if value is not None else 'N/A'" of a value that is no number
TextOrNA(value) == IF value.k = "null" THEN NA ELSE value.s

\* the result of execute_query: {"error": text} or {"results": rows}; rows
\* that were returned raw are lists, not dictionaries: their values have no
\* column name
NoName(value) == <<(<<>>), value>>
ErrorResult(text) == [is_error |-> TRUE, error |-> text, results |-> <<>>, raw |-> FALSE]
RowsResult(rows) == [is_error |-> FALSE, error |-> <<>>, results |-> rows, raw |-> FALSE]
RawRowsResult(rows) == [is_error |-> FALSE, error |-> <<>>, results |-> rows, raw |-> TRUE]

(***************************************************************************)
(* The four formatters and their dispatch                                  *)
(***************************************************************************)
\* _detect_financial_columns: for each column whether it went to
\* percentage_columns, to financial_columns, or to neither
_detect_financial_columns(columns) ==
    [j \in DOMAIN columns |->
        IF IsPercentageColumn(columns[j]) THEN "percentage"
        ELSE IF AnyIn(financial_keywords, Lower(columns[j])) THEN "financial"
        ELSE "plain"]

\* the text of one value of a column of that kind, as _format_table_enhanced
\* and _format_time_series_enhanced write it (before a sign or trend is added)
ClassifiedText(kind, value) ==
    IF kind = "percentage" THEN _format_financial_value(value, TRUE)
    ELSE IF kind = "financial" THEN _format_financial_value(value, FALSE)
    ELSE IF IsNumber(value) THEN PlainNumberText(value)
    ELSE TextOrNA(value)

\* "Row {i+1}" and "BU {i+1}", i counted from 1 here
RowTitle(i) == Str(<<"R","o","w"," ">> \o Digits(i))
BUTitle(i) == Str(<<"B","U"," ">> \o Digits(i))

\* _format_results, case 1: f"{key}: {formatted_value}"
FormatScalar(results) ==
    LET key == results[1][1][1]
        value == results[1][1][2]
        key_lower == Lower(key)
        is_percentage == AnyIn(scalar_percentage_keywords, key_lower) \/ EndsWithPercent(key_lower)
        is_financial == AnyIn(scalar_financial_keywords, key_lower)
        formatted_value ==
            IF is_percentage THEN _format_financial_value(value, TRUE)
            ELSE IF is_financial THEN _format_financial_value(value, FALSE)
            ELSE IF IsNumber(value) THEN _format_financial_value(value, FALSE)
            ELSE StrOf(value)
        kind == IF is_percentage THEN "percentage"
                ELSE IF is_financial \/ IsNumber(value) THEN "financial" ELSE "plain"
    IN  Output("scalar", <<>>, <<Block(Null, <<Line(key, kind, value, formatted_value, "none")>>)>>)

\* _format_table_enhanced: one line
TableLine(col, kind, value) ==
    LET text == ClassifiedText(kind, value)
        signed == IF /\ kind = "financial"
                     /\ IsNumber(value)
                     /\ value.c > 0
                     /\ Contains(Lower(col), kw_variance)
                  THEN <<"+">> \o text ELSE text
    IN  Line(col, kind, value, signed, "none")

\* _format_table_enhanced
_format_table_enhanced(results) ==
    LET columns == Keys(results[1])
        table(kinds) ==
            Output("table", <<>>,
                   [i \in DOMAIN results |->
                       Block(RowTitle(i),
                             [j \in DOMAIN kinds |->
                                 TableLine(columns[j], kinds[j],
                                           RowGet(results[i], columns[j], Str(NA)))])])
    IN  \* the columns are classified once, before the rows are written
        CHOOSE out \in {table(kinds) : kinds \in {_detect_financial_columns(columns)}} : TRUE

\* previous_values[col] when row i is written: the last number of col in the
\* rows before, <<>> when there is none
PreviousValue(results, col, i) ==
    LET seen == {j \in 1..(i - 1) : IsNumber(RowGet(results[j], col, Null))}
    IN  IF seen = {} THEN <<>>
        ELSE <<RowAt(results[CHOOSE j \in seen : \A k \in seen : k <= j], col).c>>

\* _format_time_series_enhanced: one line of row i
TimeSeriesLine(results, i, col, kind, val) ==
    LET previous == PreviousValue(results, col, i)
        trend == IF kind = "financial" /\ IsNumber(val) /\ previous # <<>>
                 THEN IF val.c > previous[1] THEN "up"
                      ELSE IF val.c < previous[1] THEN "down" ELSE "flat"
                 ELSE "none"
    IN  Line(col, kind, val, ClassifiedText(kind, val), trend)

\* _format_time_series_enhanced
_format_time_series_enhanced(results) ==
    LET all_columns == Keys(results[1])
        time_cols == SelectSeq(all_columns, LAMBDA col : AnyIn(time_column_terms, Lower(col)))
        time_col == IF time_cols # <<>> THEN time_cols[1] ELSE all_columns[1]
        data_columns == SelectSeq(all_columns, LAMBDA col : col # time_col)
        series(kinds) ==
            Output("time_series", <<>>,
                   [i \in DOMAIN results |->
                       Block(RowAt(results[i], time_col),
                             [j \in DOMAIN kinds |->
                                 TimeSeriesLine(results, i, data_columns[j], kinds[j],
                                                RowGet(results[i], data_columns[j], Null))])])
    IN  \* the columns are classified once, before the rows are written
        CHOOSE out \in {series(kinds) : kinds \in {_detect_financial_columns(data_columns)}} : TRUE

\* the order of the characters of the model's strings (by code point)
CodePointOrder ==
    <<" ", "%", "(", ")", "+", ",", "-", ".", "/">> \o DigitChars \o UpperLetters \o <<"_">> \o
    LowerLetters \o <<"é", "€">>

CodePoint(ch) == CHOOSE i \in DOMAIN CodePointOrder : CodePointOrder[i] = ch

\* a < b for strings
RECURSIVE StrLess(_, _)
StrLess(a, b) ==
    IF b = <<>> THEN FALSE
    ELSE IF a = <<>> THEN TRUE
    ELSE IF Head(a) = Head(b) THEN StrLess(Tail(a), Tail(b))
    ELSE CodePoint(Head(a)) < CodePoint(Head(b))

\* a < b for two sort keys of one type
KeyLess(a, b) == IF a.k = "num" THEN a.c < b.c ELSE StrLess(a.s, b.s)

\* sorted(results, key=..., reverse=True): the rows by falling key, rows of
\* equal key in their first order; a comparison of a number and a string
\* raises, and the rows stay as they are ("except: sorted_results = results")
SortedDescending(results, key) ==
    LET n == Len(results)
        mixed == \E i, j \in 1..n : key[i].k # key[j].k
        place(i) == 1 + Cardinality({j \in 1..n : KeyLess(key[i], key[j])})
                      + Cardinality({j \in 1..(i - 1) :
                                        ~KeyLess(key[i], key[j]) /\ ~KeyLess(key[j], key[i])})
    IN  IF mixed THEN results
        ELSE [p \in 1..n |-> results[CHOOSE i \in 1..n : place(i) = p]]

\* the last element of a sequence of columns, <<>> when there is none
LastOf(cols) == IF cols = <<>> THEN <<>> ELSE <<cols[Len(cols)]>>

\* "not bu_name or bu_name == 'None'"
IsBlankName(bu_name) ==
    \/ bu_name.k = "null"
    \/ bu_name.k = "str" /\ (bu_name.s = <<>> \/ bu_name.s = NoneText)
    \/ bu_name.k = "num" /\ bu_name.c = 0

IndexError == <<"l","i","s","t"," ","i","n","d","e","x"," ","o","u","t"," ","o","f"," ","r","a","n","g","e">>
AttributeError == <<SQ,"l","i","s","t",SQ," ","o","b","j","e","c","t"," ","h","a","s"," ","n","o"," ","a","t","t","r","i","b","u","t","e"," ",SQ,"k","e","y","s",SQ>>

\* _format_bu_comparison
_format_bu_comparison(results) ==
    LET columns == Keys(results[1])
        is_bu(col) == Contains(Lower(col), kw_bu) \/ Contains(Lower(col), kw_business)
        is_revenue(col) ==
            /\ ~is_bu(col)
            /\ \/ Contains(Lower(col), kw_revenue)
               \/ Contains(Lower(col), kw_ca)
               \/ Contains(Lower(col), kw_revenu)
        is_budget(col) == ~is_bu(col) /\ ~is_revenue(col) /\ Contains(Lower(col), kw_budget)
        is_variance(col) ==
            /\ ~is_bu(col) /\ ~is_revenue(col) /\ ~is_budget(col)
            /\ \/ Contains(Lower(col), kw_variance)
               \/ Contains(Lower(col), kw_difference)
               \/ Contains(Lower(col), kw_dif)
        \* bu_col: the last column that names the unit, <<>> for None
        bu_col == LastOf(SelectSeq(columns, is_bu))
        revenue_cols == SelectSeq(columns, is_revenue)
        variance_cols == SelectSeq(columns, is_variance)
        sort_col == IF variance_cols # <<>> THEN variance_cols[1]
                    ELSE IF revenue_cols # <<>> THEN revenue_cols[1]
                    ELSE columns[2]
        sort_key(row) ==
            LET x == RowGet(row, sort_col, Num(0))
            IN  IF x.k = "null" THEN Num(0) ELSE x
        sorted_results == SortedDescending(results, [i \in DOMAIN results |-> sort_key(results[i])])
        line(row, col) ==
            LET value == RowGet(row, col, Str(NA))
                col_lower == Lower(col)
                financial == AnyIn(bu_financial_keywords, col_lower)
                variance == Contains(col_lower, kw_variance) \/ Contains(col_lower, kw_dif)
                text == IF IsNumber(value)
                        THEN IF financial
                             THEN IF variance /\ value.c > 0
                                  THEN <<"+">> \o _format_financial_value(value, FALSE)
                                  ELSE _format_financial_value(value, FALSE)
                             ELSE PlainNumberText(value)
                        ELSE TextOrNA(value)
            IN  Line(col, IF IsNumber(value) /\ financial THEN "financial" ELSE "plain",
                     value, text, "none")
        block(i) ==
            LET row == sorted_results[i]
                bu_name == IF bu_col = <<>> THEN BUTitle(i) ELSE RowGet(row, bu_col[1], BUTitle(i))
            IN  IF IsBlankName(bu_name) THEN <<>>
                ELSE <<Block(bu_name,
                             Compact([j \in DOMAIN columns |->
                                        IF bu_col # <<>> /\ columns[j] = bu_col[1] THEN <<>>
                                        ELSE <<line(row, columns[j])>>]))>>
    IN  IF variance_cols = <<>> /\ revenue_cols = <<>> /\ Len(columns) < 2
        THEN \* columns[1] of a one-column result
             Output("raised", IndexError, <<>>)
        ELSE Output("bu_comparison", <<>>, Compact([i \in DOMAIN sorted_results |-> block(i)]))

NoResultsText == <<"Q","u","e","r","y"," ","r","e","t","u","r","n","e","d"," ","n","o"," ","r","e","s","u","l","t","s",".">>
ErrorPrefix == <<"E","r","r","o","r"," ","e","x","e","c","u","t","i","n","g"," ","q","u","e","r","y",":"," ">>

\* _format_results, case 2: more than one record and a time-series term in a column
IsTimeSeries(results) ==
    Len(results) > 1 /\ \E i \in DOMAIN results[1] : AnyIn(time_series_terms, Lower(results[1][i][1]))

\* _format_results, case 3: more than one record and an entity term in a column
IsBUComparison(results) ==
    Len(results) > 1 /\ \E i \in DOMAIN results[1] : AnyIn(bu_comparison_terms, Lower(results[1][i][1]))

\* QueryPowerBITool._format_results.  A result whose rows are lists raises
\* at the first results[0].keys().
_format_results(result) ==
    IF result.is_error THEN Output("error", ErrorPrefix \o result.error, <<>>)
    ELSE IF Len(result.results) = 0 THEN Output("empty", NoResultsText, <<>>)
    ELSE IF result.raw THEN Output("raised", AttributeError, <<>>)
    ELSE LET results == result.results
         IN  IF Len(results) = 1 /\ Len(results[1]) = 1 THEN FormatScalar(results)
             ELSE IF IsTimeSeries(results) THEN _format_time_series_enhanced(results)
             ELSE IF IsBUComparison(results) THEN _format_bu_comparison(results)
             ELSE _format_table_enhanced(results)

(***************************************************************************)
(* The formatter at work: the results it is given                          *)
(***************************************************************************)
MaxRecords == 3
MaxFields == 2

\* the column names of the results
ColumnNames ==
    { <<"Y","e","a","r">>, <<"Q","u","a","r","t","e","r">>,
      <<"D","a","y">>, <<"B","u","s","i","n","e","s","s"," ","U","n","i","t">>,
      <<"B","u","d","g","e","t">>, <<"V","a","r","i","a","n","c","e">>, <<"R","e","v","e","n","u","e">>,
      <<"N","a","m","e">>,
      <<"D","i","f","f","e","r","e","n","c","e">>, <<"V","a","r","i","a","n","c","e"," ","%">>,
      <<"B","u","d","g","e","t"," ","V","a","r","i","a","n","c","e">> }

\* the columns that hold a label, the others hold amounts
LabelColumns ==
    { <<"Y","e","a","r">>, <<"Q","u","a","r","t","e","r">>,
      <<"D","a","y">>, <<"B","u","s","i","n","e","s","s"," ","U","n","i","t">>, <<"N","a","m","e">> }

\* the labels: texts, a missing one, an empty one, and a year as a number
LabelValues ==
    << Str(<<"A">>), Str(<<"B">>), Str(<<"A">>), Null, Num(202400), Str(<<>>), Str(<<"C">>) >>

\* the amounts: around the bounds of the rendering bands, of both signs,
\* twice the same, missing, and as text (in cents)
AmountValues ==
    << Num(0), Num(50), Num(99999), Num(100000), Num(100000), Num(99999999), Num(100000000),
       Num(123456789), Null, Num(-250000), Num(-200000000),
       Str(<<"1",",","2","3","4",".","5","6">>), Str(<<"a","b","c">>) >>

\* the steps from one record's values to the next record's
ValueSteps == {0, 1}

\* the k-th value of a column, the values taken round and round
ValueOf(col, k) ==
    IF col \in LabelColumns THEN LabelValues[(k % Len(LabelValues)) + 1]
    ELSE AmountValues[(k % Len(AmountValues)) + 1]

\* the sequences of n different column names
RECURSIVE ColumnLists(_)
ColumnLists(n) ==
    IF n = 0 THEN {<<>>}
    ELSE {Append(cols, col) : cols \in ColumnLists(n - 1), col \in ColumnNames} \cap
         {cols \in UNION {[1..n -> ColumnNames]} : \A i, j \in 1..n : i # j => cols[i] # cols[j]}

\* records of the same columns, as execute_query builds them
RecordsOf(cols, n, base, step) ==
    [r \in 1..n |-> [j \in DOMAIN cols |-> <<cols[j], ValueOf(cols[j], base + (r - 1) * step + 3 * (j - 1))>>]]

EngineErrorText == <<"F","a","i","l","e","d"," ","t","o"," ","e","x","e","c","u","t","e"," ","q","u","e","r","y",":"," ","4","0","0"," ","-"," ","B","a","d"," ","R","e","q","u","e","s","t">>

\* what _format_results is given: records, no record, rows that are no
\* records, an error
FormatInputs ==
    { RowsResult(RecordsOf(cols, n, base, step)) :
        cols \in UNION {ColumnLists(f) : f \in 1..MaxFields}, n \in {1, MaxRecords},
        base \in 0..(Len(AmountValues) - 1), step \in ValueSteps }
    \cup { RowsResult(<<>>), RawRowsResult(<<>>), RawRowsResult(<< <<NoName(Num(100))>> >>),
           ErrorResult(EngineErrorText) }

NoOutput == Output("none", <<>>, <<>>)

FmtInit ==
    /\ fmt_result \in FormatInputs
    /\ fmt_output = NoOutput
    /\ fmt_pc = "start"

FmtIdle ==
    /\ fmt_result = RowsResult(<<>>)
    /\ fmt_output = NoOutput
    /\ fmt_pc = "idle"

\* _format_results is called on the result of execute_query
FormatResults ==
    /\ fmt_pc = "start"
    /\ fmt_output' = _format_results(fmt_result)
    /\ fmt_pc' = "formatted"
    /\ UNCHANGED <<fmt_result, notFmt>>

(***************************************************************************)
(* PowerBIHelper.execute_query: the request and the reshaping of the answer *)
(*                                                                         *)
(* An answer of the engine has a status, a text, and (parsed) a body: its  *)
(* first table's columns, each with or without a name, and its rows, each  *)
(* an array of values.                                                     *)
(***************************************************************************)
Column(name) == [named |-> TRUE, name |-> name]
UnnamedColumn == [named |-> FALSE, name |-> <<>>]

Body(kind, columns, rows) == [kind |-> kind, columns |-> columns, rows |-> rows]
NoBody == Body("none", <<>>, <<>>)

Response(status, text, body) == [raised |-> FALSE, status |-> status, text |-> text, body |-> body]
\* execute_query_with_retry raised: text is the message of the exception
Raised(text) == [raised |-> TRUE, status |-> 0, text |-> text, body |-> NoBody]

\* row_dict[column_name] = value: a new key goes last, a key that is there
\* keeps its place and takes the value
DictSet(row_dict, column_name, value) ==
    IF HasKey(row_dict, column_name)
    THEN [i \in DOMAIN row_dict |->
            IF row_dict[i][1] = column_name THEN <<column_name, value>> ELSE row_dict[i]]
    ELSE Append(row_dict, <<column_name, value>>)

\* column.get("name", f"Column{i+1}"), i counted from 1 here
ColumnName(column, i) ==
    IF column.named THEN column.name ELSE <<"C","o","l","u","m","n">> \o Digits(i)

\* a null of the row written as the empty string
CellAt_NullAsEmpty(row, i) ==
    IF i <= Len(row) THEN (IF row[i] = Null THEN Str(<<>>) ELSE row[i]) ELSE Null

\* "row[i] if i < len(row) else None", i counted from 1 here
CellAt(row, i) == IF i <= Len(row) THEN row[i] ELSE Null

\* the loop "for i, column in enumerate(columns)" from column i on
RECURSIVE RowDict(_, _, _, _)
RowDict(columns, row, i, row_dict) ==
    IF i > Len(columns) THEN row_dict
    ELSE RowDict(columns, row, i + 1,
                 DictSet(row_dict, ColumnName(columns[i], i), CellAt(row, i)))

\* "Convert rows to dictionaries using column names"
Reshape(columns, rows) == [r \in DOMAIN rows |-> RowDict(columns, rows[r], 1, <<>>)]

\* rows returned as they came
RawRows(rows) == [r \in DOMAIN rows |-> [i \in DOMAIN rows[r] |-> NoName(rows[r][i])]]

FailedPrefix == <<"F","a","i","l","e","d"," ","t","o"," ","e","x","e","c","u","t","e"," ","q","u","e","r","y",":"," ">>
JSONError == <<"E","x","p","e","c","t","i","n","g"," ","v","a","l","u","e",":"," ","l","i","n","e"," ","1"," ","c","o","l","u","m","n"," ","1"," ","(","c","h","a","r"," ","0",")">>

\* execute_query from the answer of execute_query_with_retry on
ParseResponse(response) ==
    IF response.raised THEN ErrorResult(ErrorPrefix \o response.text)
    ELSE IF response.status # 200
    THEN ErrorResult(FailedPrefix \o Digits(response.status) \o <<" ","-"," ">> \o response.text)
    ELSE CASE response.body.kind = "invalid_json" -> ErrorResult(ErrorPrefix \o JSONError)
           [] response.body.kind = "no_results" -> RowsResult(<<>>)
           [] response.body.kind = "table" ->
                IF response.body.columns = <<>> THEN RawRowsResult(RawRows(response.body.rows))
                ELSE RowsResult(Reshape(response.body.columns, response.body.rows))
           [] response.body.kind = "rows_only" -> RawRowsResult(RawRows(response.body.rows))
           [] response.body.kind = "other" -> RowsResult(<< <<>> >>)

\* the names of the engine's columns, each once in a table
ExecColumnNames ==
    { <<"Y","e","a","r">>, <<"R","e","v","e","n","u","e">>, <<"N","a","m","e">> }

\* the values of the engine's rows: a number, null, the empty string, a text, zero
CellValues == << Num(150000), Null, Str(<<>>), Str(<<"A">>), Num(0) >>

\* the column lists of n columns: named ones with different names, and unnamed ones
RECURSIVE ExecColumnLists(_)
ExecColumnLists(n) ==
    IF n = 0 THEN {<<>>}
    ELSE { Append(cols, col) :
             <<cols, col>> \in
               { <<cols, col>> \in ExecColumnLists(n - 1) \X
                                   ({Column(name) : name \in ExecColumnNames} \cup {UnnamedColumn}) :
                    col.named => \A i \in DOMAIN cols : cols[i] # col } }

\* n rows for ncols columns: row r has (len0 + r - 1) values, counted round
\* from none to one more than the columns, taken round from CellValues
RowsOf(ncols, n, base, len0) ==
    [r \in 1..n |->
        [i \in 1..((len0 + r - 1) % (ncols + 2)) |-> CellValues[((base + r + i) % Len(CellValues)) + 1]]]

\* the tables the engine answers with
Tables ==
    UNION { { Body("table", cols, RowsOf(Len(cols), n, base, len0)) :
                n \in 0..MaxRecords, base \in 0..(Len(CellValues) - 1), len0 \in 0..(Len(cols) + 1) } :
            cols \in UNION {ExecColumnLists(f) : f \in 0..MaxFields} }

\* the bodies of a 200 answer
Bodies200 ==
    Tables \cup { Body("invalid_json", <<>>, <<>>), Body("no_results", <<>>, <<>>),
                  Body("other", <<>>, <<>>), Body("rows_only", <<>>, << <<Num(100)>> >>) }

NotATable == <<"Q","u","e","r","y"," ","(","1",","," ","1","0",")"," ","T","h","e"," ","e","x","p","r","e","s","s","i","o","n"," ","s","p","e","c","i","f","i","e","d"," ","i","n"," ","t","h","e"," ","q","u","e","r","y"," ","i","s"," ","n","o","t"," ","a"," ","v","a","l","i","d"," ","t","a","b","l","e"," ","e","x","p","r","e","s","s","i","o","n",".">>
SyntaxError == <<"Q","u","e","r","y"," ","(","1",","," ","1","6",")"," ","T","h","e"," ","s","y","n","t","a","x"," ","f","o","r"," ",SQ,")",SQ," ","i","s"," ","i","n","c","o","r","r","e","c","t",".">>
Unauthorized == <<"U","n","a","u","t","h","o","r","i","z","e","d">>
ConnectionError == <<"C","o","n","n","e","c","t","i","o","n"," ","a","b","o","r","t","e","d",".">>

\* the texts of an answer that is not a 200
ErrorTexts(status) == IF status = 401 THEN {Unauthorized} ELSE {NotATable, SyntaxError}

\* what execute_query_with_retry hands back once thread t's call is over,
\* the body of a 200 answer taken from bodies
ResponsesOf(t, bodies) ==
    IF th[t].result = "raised" THEN {Raised(ConnectionError)}
    ELSE IF th[t].response = 200 THEN {Response(200, <<>>, body) : body \in bodies}
    ELSE {Response(th[t].response, text, NoBody) : text \in ErrorTexts(th[t].response)}

NoResponse == Response(0, <<>>, NoBody)

ExecInit ==
    /\ exec_query = EVALUATE \o <<" ","{","1","}">>
    /\ exec_response = NoResponse
    /\ exec_result = RowsResult(<<>>)
    /\ exec_pc = "start"

ExecIdle ==
    /\ exec_query = <<>>
    /\ exec_response = NoResponse
    /\ exec_result = RowsResult(<<>>)
    /\ exec_pc = "idle"

\* execute_query is called: response = self.execute_query_with_retry(endpoint, body)
ExecuteQuery ==
    /\ exec_pc = "start"
    /\ th[Requester].pc = "idle"
    /\ exec_pc' = "requesting"
    /\ th' = [th EXCEPT ![Requester] = [IdleThread EXCEPT !.pc = "get_token", !.force = FALSE,
                                                          !.ret = "first_headers"]]
    /\ UNCHANGED <<exec_query, exec_response, exec_result, authRest, notExec>>

\* execute_query_with_retry is over: execute_query turns what it got into
\* its result
ExecuteQueryReturns(bodies) ==
    /\ exec_pc = "requesting"
    /\ th[Requester].pc = "done"
    /\ \E response \in ResponsesOf(Requester, bodies) :
        /\ exec_response' = response
        /\ exec_result' = ParseResponse(response)
    /\ exec_pc' = "returned"
    /\ th' = [th EXCEPT ![Requester] = IdleThread]
    /\ UNCHANGED <<exec_query, authRest, notExec>>

(***************************************************************************)
(* QueryPowerBITool: diagnosis, proactive repair, _run                     *)
(***************************************************************************)
\* re.search(r"EVALUATE\s+[A-Za-z]+\s+EVALUATE", query, re.IGNORECASE)
HasTaggedEvaluate(query) ==
    \E i \in DOMAIN query :
        TagMatchLen(query, i) > 0 /\ MatchAtNoCase(query, EVALUATE, i + TagMatchLen(query, i))

\* the position of the first "]" of s from position i on, 0 when there is none
FirstClose(s, i) ==
    LET closes == {p \in i..Len(s) : s[p] = "]"}
    IN  IF closes = {} THEN 0 ELSE CHOOSE p \in closes : \A q \in closes : p <= q

\* re.search(r'\[\[[^\]]+\]\]', query)
HasDoubleBrackets(query) ==
    \E i \in DOMAIN query :
        /\ MatchAt(query, <<"[","[">>, i)
        /\ FirstClose(query, i + 2) > i + 2
        /\ MatchAt(query, <<"]","]">>, FirstClose(query, i + 2))

\* re.search(r'\[[^\]]+\]/N-1', query)
HasIncorrectN1(query) ==
    \E i \in DOMAIN query :
        /\ query[i] = "["
        /\ FirstClose(query, i + 1) > i + 1
        /\ MatchAt(query, <<"]","/","N","-","1">>, FirstClose(query, i + 1))

DiagnosisTagged == <<"M","u","l","t","i","p","l","e"," ","E","V","A","L","U","A","T","E"," ","s","t","a","t","e","m","e","n","t","s"," ","o","r"," ","l","a","n","g","u","a","g","e"," ","i","d","e","n","t","i","f","i","e","r"," ","i","n"," ","q","u","e","r","y">>
DiagnosisNoReturn == <<"M","i","s","s","i","n","g"," ","R","E","T","U","R","N"," ","s","t","a","t","e","m","e","n","t"," ","i","n"," ","V","A","R","-","b","a","s","e","d"," ","q","u","e","r","y">>
DiagnosisBrackets == <<"D","o","u","b","l","e"," ","b","r","a","c","k","e","t","s"," ","d","e","t","e","c","t","e","d"," ","i","n"," ","m","e","a","s","u","r","e","s",","," ","s","h","o","u","l","d"," ","u","s","e"," ","s","i","n","g","l","e"," ","b","r","a","c","k","e","t","s">>
DiagnosisN1 == <<"I","n","c","o","r","r","e","c","t"," ","N","-","1"," ","m","e","a","s","u","r","e"," ","s","y","n","t","a","x",":"," ","U","s","e"," ","[","C","A","/","N","-","1","]"," ","i","n","s","t","e","a","d"," ","o","f"," ","[","C","A","]","/","N","-","1">>
DiagnosisNone == <<"N","o"," ","c","o","m","m","o","n"," ","s","y","n","t","a","x"," ","i","s","s","u","e","s"," ","d","e","t","e","c","t","e","d","."," ","S","e","e"," ","e","r","r","o","r"," ","m","e","s","s","a","g","e"," ","f","o","r"," ","d","e","t","a","i","l","s",".">>
DiagnosisHead == <<"S","y","n","t","a","x"," ","i","s","s","u","e","s"," ","d","e","t","e","c","t","e","d",":","\n","-"," ">>
kw_VAR == <<"V","A","R">>
kw_RETURN == <<"R","E","T","U","R","N">>

\* f"Unbalanced parentheses: {open_parens} opening vs {close_parens} closing"
DiagnosisParens(open_parens, close_parens) ==
    <<"U","n","b","a","l","a","n","c","e","d"," ","p","a","r","e","n","t","h","e","s","e","s",":"," ">> \o Digits(open_parens) \o
    <<" ","o","p","e","n","i","n","g"," ","v","s"," ">> \o Digits(close_parens) \o <<" ","c","l","o","s","i","n","g">>

\* "\n- ".join(diagnoses)
RECURSIVE JoinDiagnoses(_)
JoinDiagnoses(diagnoses) ==
    IF Len(diagnoses) = 1 THEN diagnoses[1]
    ELSE diagnoses[1] \o <<"\n","-"," ">> \o JoinDiagnoses(Tail(diagnoses))

\* the diagnosis that counts only parentheses left open
_diagnose_syntax_error_OnlyUnclosed(query, error_message) ==
    LET open_parens == Count(query, "(")
        close_parens == Count(query, ")")
        diagnoses ==
            (IF HasTaggedEvaluate(query) THEN <<DiagnosisTagged>> ELSE <<>>) \o
            (IF Contains(Upper(query), kw_VAR) /\ ~Contains(Upper(query), kw_RETURN)
             THEN <<DiagnosisNoReturn>> ELSE <<>>) \o
            (IF open_parens > close_parens
             THEN <<DiagnosisParens(open_parens, close_parens)>> ELSE <<>>) \o
            (IF HasDoubleBrackets(query) THEN <<DiagnosisBrackets>> ELSE <<>>) \o
            (IF HasIncorrectN1(query) THEN <<DiagnosisN1>> ELSE <<>>)
    IN  IF diagnoses # <<>> THEN DiagnosisHead \o JoinDiagnoses(diagnoses) ELSE DiagnosisNone

\* QueryPowerBITool._diagnose_syntax_error
_diagnose_syntax_error(query, error_message) ==
    LET open_parens == Count(query, "(")
        close_parens == Count(query, ")")
        diagnoses ==
            (IF HasTaggedEvaluate(query) THEN <<DiagnosisTagged>> ELSE <<>>) \o
            (IF Contains(Upper(query), kw_VAR) /\ ~Contains(Upper(query), kw_RETURN)
             THEN <<DiagnosisNoReturn>> ELSE <<>>) \o
            (IF open_parens # close_parens
             THEN <<DiagnosisParens(open_parens, close_parens)>> ELSE <<>>) \o
            (IF HasDoubleBrackets(query) THEN <<DiagnosisBrackets>> ELSE <<>>) \o
            (IF HasIncorrectN1(query) THEN <<DiagnosisN1>> ELSE <<>>)
    IN  IF diagnoses # <<>> THEN DiagnosisHead \o JoinDiagnoses(diagnoses) ELSE DiagnosisNone

kw_CALCULATE == <<"C","A","L","C","U","L","A","T","E","(">>
TableFunctions ==
    { <<"R","O","W","(">>, <<"S","U","M","M","A","R","I","Z","E">>,
      <<"S","U","M","M","A","R","I","Z","E","C","O","L","U","M","N","S">>, <<"V","A","L","U","E","S">>,
      <<"T","O","P","N">>, <<"D","I","S","T","I","N","C","T">> }

\* re.sub(r"EVALUATE\s+", "", query, flags=re.IGNORECASE, count=1).strip()
BodyOf(query) == Strip(RemoveFirstEvaluate(query))

\* QueryPowerBITool._is_potentially_invalid_table_expression
_is_potentially_invalid_table_expression(query) ==
    /\ Contains(Upper(query), EVALUATE)
    /\ StartsWith(Upper(BodyOf(query)), kw_CALCULATE)
    /\ ~AnyIn(TableFunctions, Upper(BodyOf(query)))

\* QueryPowerBITool._fix_invalid_table_expression (the body starts with
\* CALCULATE(, so no comment comes before it)
_fix_invalid_table_expression(query) ==
    IF StartsWith(Upper(BodyOf(query)), kw_CALCULATE)
    THEN EVALUATE \o <<"\n">> \o <<"R","O","W","(",DQ,"R","e","s","u","l","t",DQ,","," ">> \o BodyOf(query) \o <<")">>
    ELSE query

\* steps 1 and 2 of _run: the query cleaned and, where it looks like an
\* invalid table expression, repaired before it is sent
Prepared(query) ==
    IF _is_potentially_invalid_table_expression(_clean_query(query))
    THEN _fix_invalid_table_expression(_clean_query(query))
    ELSE _clean_query(query)

QueryRequired == <<"E","r","r","o","r",":"," ","Q","u","e","r","y"," ","i","s"," ","r","e","q","u","i","r","e","d",".">>
kw_not_a_table == <<"n","o","t"," ","a"," ","v","a","l","i","d"," ","t","a","b","l","e"," ","e","x","p","r","e","s","s","i","o","n">>
DiagnosisLabel == <<"\n","\n","D","i","a","g","n","o","s","i","s",":"," ">>
AttemptedLabel == <<"\n","\n","A","t","t","e","m","p","t","e","d"," ","q","u","e","r","y",":","\n">>

\* "Error executing query: {error_message}\n\nDiagnosis: {syntax_diagnosis}
\*  \n\nAttempted query:\n{cleaned_query}"
DiagnosedError(error_message, cleaned) ==
    Output("error",
           ErrorPrefix \o error_message \o DiagnosisLabel \o
           _diagnose_syntax_error(cleaned, error_message) \o AttemptedLabel \o cleaned,
           <<>>)

\* the queries the reasoning loop hands to the tool
ToolQueries ==
    { <<"E","V","A","L","U","A","T","E"," ","R","O","W","(",DQ,"R",DQ,","," ","[","C","A","]",")">>,
      <<"E","V","A","L","U","A","T","E"," ","C","A","L","C","U","L","A","T","E","(","[","C","A","]",")">>,
      <<"E","V","A","L","U","A","T","E"," ","V","A","R"," ","x"," ","="," ","(","1">>, <<>>,
      <<BQ,BQ,BQ,"d","a","x","\n","E","V","A","L","U","A","T","E"," ","{","[","[","C","A","]","]","}","\n",BQ,BQ,BQ>>,
      <<"E","V","A","L","U","A","T","E"," ","{","[","C","A","]","/","N","-","1","}">>,
      <<"e","v","a","l","u","a","t","e"," ","d","a","x"," ","E","V","A","L","U","A","T","E"," ","{","1","}">> }

\* a table of two records, a table of one value, and rows without columns
ToolTables ==
    { Body("table", <<Column(<<"Y","e","a","r">>), Column(<<"R","e","v","e","n","u","e">>)>>,
           << <<Num(202300), Num(150000000)>>, <<Num(202400), Null>> >>),
      Body("table", <<Column(<<"R","e","s","u","l","t">>)>>, << <<Num(123456)>> >>),
      Body("table", <<>>, << <<Num(100)>> >>),
      Body("no_results", <<>>, <<>>) }

ToolInit ==
    /\ tool_query \in ToolQueries
    /\ tool_cleaned = <<>>
    /\ tool_error = <<>>
    /\ tool_calls = 0
    /\ tool_output = NoOutput
    /\ tool_pc = "start"

ToolIdle ==
    /\ tool_query = <<>>
    /\ tool_cleaned = <<>>
    /\ tool_error = <<>>
    /\ tool_calls = 0
    /\ tool_output = NoOutput
    /\ tool_pc = "idle"

\* execute_query(query) is called by _run
CallExecuteQuery(query) ==
    /\ exec_query' = query
    /\ exec_response' = NoResponse
    /\ exec_result' = RowsResult(<<>>)
    /\ exec_pc' = "requesting"
    /\ th' = [th EXCEPT ![Requester] = [IdleThread EXCEPT !.pc = "get_token", !.force = FALSE,
                                                          !.ret = "first_headers"]]

\* _run is called with no query: "Error: Query is required."
ToolRunEmpty ==
    /\ tool_pc = "start"
    /\ tool_query = <<>>
    /\ tool_output' = Output("error", QueryRequired, <<>>)
    /\ tool_pc' = "done"
    /\ UNCHANGED <<tool_query, tool_cleaned, tool_error, tool_calls, authVars, execVars, notTool>>

\* _run is called: steps 1 to 3, up to the call of execute_query
ToolRun ==
    /\ tool_pc = "start"
    /\ tool_query # <<>>
    /\ th[Requester].pc = "idle"
    /\ tool_cleaned' = Prepared(tool_query)
    /\ CallExecuteQuery(Prepared(tool_query))
    /\ tool_calls' = 1
    /\ tool_pc' = "executing"
    /\ UNCHANGED <<tool_query, tool_error, tool_output, authRest, notTool>>

\* execute_query has returned: _run formats the result and returns it.  When
\* formatting raises, _run diagnoses the query; if the message tells of an
\* invalid table expression and the repair changes the query, it runs the
\* repaired query once; else, and when that second run fails too, it returns
\* the first message with the diagnosis.
ToolReturns ==
    /\ tool_pc = "executing"
    /\ exec_pc = "returned"
    /\ LET formatted == _format_results(exec_result)
           fixed_query == _fix_invalid_table_expression(tool_cleaned)
       IN  IF formatted.shape # "raised"
           THEN /\ tool_output' = formatted
                /\ tool_pc' = "done"
                /\ UNCHANGED <<tool_error, tool_calls, authVars, execVars>>
           ELSE IF /\ tool_calls = 1
                   /\ Contains(formatted.text, kw_not_a_table)
                   /\ fixed_query # tool_cleaned
           THEN /\ tool_error' = formatted.text
                /\ tool_calls' = 2
                /\ CallExecuteQuery(fixed_query)
                /\ UNCHANGED <<tool_output, tool_pc, authRest>>
           ELSE /\ tool_error' = (IF tool_calls = 1 THEN formatted.text ELSE tool_error)
                /\ tool_output' = DiagnosedError(IF tool_calls = 1 THEN formatted.text
                                                 ELSE tool_error, tool_cleaned)
                /\ tool_pc' = "done"
                /\ UNCHANGED <<tool_calls, authVars, execVars>>
    /\ UNCHANGED <<tool_query, tool_cleaned, notTool>>

(***************************************************************************)
(* PowerBIAgentService: the agent executor and process_query               *)
(***************************************************************************)
\* AgentExecutor.from_agent_and_tools(..., max_iterations=12, ...)
max_iterations == 12

\* early_stopping_method="force": the executor stops at the cap with a fixed
\* text, "which does not allow the agent to provide a proper conclusion"
early_stopping_method_force == "force"

\* early_stopping_method="generate"
early_stopping_method == "generate"

\* what self.agent.invoke({"input": query}) hands to process_query: a dict
\* with the key 'output', or an exception.  source tells where the output
\* comes from and steps how many observations it was written from.
Invoked(source, steps) ==
    [raised |-> FALSE, has_output |-> TRUE, source |-> source, steps |-> steps]
InvokeRaised(steps) ==
    [raised |-> TRUE, has_output |-> FALSE, source |-> "exception", steps |-> steps]
NoInvocation ==
    [raised |-> FALSE, has_output |-> FALSE, source |-> "none", steps |-> 0]

\* what process_query gives its caller: a string or an exception
Answer(type, source, steps) == [type |-> type, source |-> source, steps |-> steps]
NoAnswer == Answer("none", "none", 0)

\* process_query without its except clause: the exception goes to the caller
process_query_NoExcept(response) ==
    IF response.raised THEN Answer("exception", "exception", response.steps)
    ELSE IF response.has_output THEN Answer("str", response.source, response.steps)
    ELSE Answer("str", "no_response", response.steps)

\* PowerBIAgentService.process_query: response.get('output', 'No response
\* generated'), and on any exception "I encountered an error processing your
\* request: ..."
process_query(response) ==
    IF response.raised THEN Answer("str", "error_text", response.steps)
    ELSE IF response.has_output THEN Answer("str", response.source, response.steps)
    ELSE Answer("str", "no_response", response.steps)

\* the executor's answer when the loop ends at the cap
StoppedResponse(steps) ==
    IF early_stopping_method = "generate" THEN Invoked("generated", steps)
    ELSE Invoked("stopped_text", steps)

\* the Action Inputs the model gives to the query tool in a question
AgentQueries ==
    { <<>>, <<"E","V","A","L","U","A","T","E"," ","V","A","R"," ","x"," ","="," ","(","1">> }

\* the engine's tables in a question: rows with their columns and rows
\* without columns
AgentTables ==
    { Body("table", <<Column(<<"R","e","s","u","l","t">>)>>, << <<Num(123456)>> >>),
      Body("table", <<>>, << <<Num(100)>> >>) }

AgentInit ==
    /\ agent_pc = "start"
    /\ iterations = 0
    /\ last_observation = "none"
    /\ agent_response = NoInvocation
    /\ answer = NoAnswer

AgentIdle ==
    /\ agent_pc = "idle"
    /\ iterations = 0
    /\ last_observation = "none"
    /\ agent_response = NoInvocation
    /\ answer = NoAnswer

\* process_query is called: self.agent.invoke({"input": query}) starts
ProcessQuery ==
    /\ agent_pc = "start"
    /\ agent_pc' = "loop"
    /\ UNCHANGED <<iterations, last_observation, agent_response, answer, notAgent>>

\* an iteration whose text is an Action of the query tool: the tool runs
AgentCallsQueryTool ==
    /\ agent_pc = "loop"
    /\ iterations < max_iterations
    /\ agent_pc' = "tool"
    /\ tool_query' \in AgentQueries
    /\ tool_pc' = "start"
    /\ UNCHANGED <<tool_cleaned, tool_error, tool_calls, tool_output>>
    /\ UNCHANGED <<iterations, last_observation, agent_response, answer>>
    /\ UNCHANGED <<authVars, execVars, cleanVars, fmtVars, matchVars, resolveVars, repairVars, sessionVars>>

\* the query tool has returned: its text is the iteration's observation
AgentObserves ==
    /\ agent_pc = "tool"
    /\ tool_pc = "done"
    /\ last_observation' = tool_output.shape
    /\ iterations' = iterations + 1
    /\ agent_pc' = "loop"
    /\ tool_query' = <<>>
    /\ tool_cleaned' = <<>>
    /\ tool_error' = <<>>
    /\ tool_calls' = 0
    /\ tool_output' = NoOutput
    /\ tool_pc' = "idle"
    /\ exec_query' = <<>>
    /\ exec_response' = NoResponse
    /\ exec_result' = RowsResult(<<>>)
    /\ exec_pc' = "idle"
    /\ UNCHANGED <<agent_response, answer, authVars, cleanVars, fmtVars, matchVars, resolveVars, repairVars, sessionVars>>

\* an iteration whose text names another tool, or no tool at all, or cannot
\* be parsed (handle_parsing_errors=True, and CustomGPT._call gives the text
\* of its error for an answer): the observation is a text all the same
AgentOtherStep ==
    /\ agent_pc = "loop"
    /\ iterations < max_iterations
    /\ last_observation' \in {"other_tool", "invalid_response"}
    /\ iterations' = iterations + 1
    /\ UNCHANGED <<agent_pc, agent_response, answer, notAgent>>

\* an iteration whose text holds "Final Answer:"
AgentFinishes ==
    /\ agent_pc = "loop"
    /\ iterations < max_iterations
    /\ agent_response' = Invoked("final_answer", iterations)
    /\ agent_pc' = "invoked"
    /\ UNCHANGED <<iterations, last_observation, answer, notAgent>>

\* the cap is reached: the executor stops as early_stopping_method tells
AgentStops ==
    /\ agent_pc = "loop"
    /\ iterations >= max_iterations
    /\ agent_response' = StoppedResponse(iterations)
    /\ agent_pc' = "invoked"
    /\ UNCHANGED <<iterations, last_observation, answer, notAgent>>

\* invoke raises (the model's call, the memory, the executor itself)
AgentRaises ==
    /\ agent_pc = "loop"
    /\ agent_response' = InvokeRaised(iterations)
    /\ agent_pc' = "invoked"
    /\ UNCHANGED <<iterations, last_observation, answer, notAgent>>

\* process_query returns
ProcessQueryReturns ==
    /\ agent_pc = "invoked"
    /\ answer' = process_query(agent_response)
    /\ agent_pc' = "returned"
    /\ UNCHANGED <<iterations, last_observation, agent_response, notAgent>>

(***************************************************************************)
(* MatchQueryExampleTool: the example library and the matcher              *)
(***************************************************************************)
\* prompts/query_examples.py: the questions of the library in their order,
\* each query text stood for by its place in the library
DAX_EXAMPLES ==
    << [question |-> <<"g","i","v","e"," ","m","e"," ","t","h","e"," ","t","o","t","a","l"," ","r","e","v","e","n","u"," ","o","f"," ","t","h","e"," ","p","r","o","d","u","c","t"," ","P","2","3","1"," ","f","o","r"," ","t","h","e"," ","y","e","a","r"," ","2","0","2","4","?">>,
        query |-> "DAX_EXAMPLES[0].query"],
       [question |-> <<"E","v","o","l","u","t","i","o","n"," ","d","u"," ","C","A"," ","m","e","n","s","u","e","l"," ","s","u","r"," ","T","1"," ","e","t"," ","T","2"," ","2","0","2","4"," ","d","u"," ","c","l","i","e","n","t"," ","A","n","a","h"," ","d","e"," ","l","a"," ","s","o","u","s"," ","B","U"," ","B","a","c","k"," ","O","f","f","i","c","e">>,
        query |-> "DAX_EXAMPLES[1].query"],
       [question |-> <<"M","a","r","g","e"," ","b","r","u","t","e"," ","d","e"," ","l","a"," ","s","o","u","s"," ","B","U"," ","M","a","n","u","f","a","c","t","u","r","e"," ","p","o","u","r"," ","l","e"," ","m","o","i","s"," ","d","e"," ","s","e","p","t","e","m","b","r","e"," ","2","0","2","4">>,
        query |-> "DAX_EXAMPLES[2].query"],
       [question |-> <<"W","h","a","t"," ","i","s"," ","t","h","e"," ","t","o","t","a","l"," ","r","e","v","e","n","u","e"," ","b","y"," ","p","r","o","d","u","c","t"," ","f","o","r"," ","A","c","m","e"," ","C","o","r","p"," ","i","n"," ","2","0","2","3","?">>,
        query |-> "DAX_EXAMPLES[3].query"],
       [question |-> <<"g","i","v","e"," ","m","e"," ","t","h","e"," ","b","e","s","t"," ","s","e","l","l","i","n","g"," ","t","h","r","e","e"," ","p","r","o","d","u","c","t","s"," ","i","n"," ","t","e","r","m","e","s"," ","o","f"," ","r","e","v","e","n","u",","," ","i","n"," ","t","h","e"," ","y","e","a","r"," ","2","0","2","4">>,
        query |-> "DAX_EXAMPLES[4].query"],
       [question |-> <<"S","h","o","w"," ","m","e"," ","m","o","n","t","h","l","y"," ","e","x","p","e","n","s","e","s"," ","b","y"," ","c","o","s","t"," ","c","e","n","t","e","r"," ","f","o","r"," ","p","r","o","j","e","c","t"," ","P","R","J","2","0","2","3","-","0","0","1">>,
        query |-> "DAX_EXAMPLES[5].query"],
       [question |-> <<"C","o","m","p","a","r","e"," ","r","e","v","e","n","u","e"," ","a","c","r","o","s","s"," ","p","r","o","d","u","c","t"," ","c","a","t","e","g","o","r","i","e","s"," ","a","n","d"," ","b","u","s","i","n","e","s","s"," ","u","n","i","t","s",","," ","w","i","t","h"," ","y","e","a","r","-","o","v","e","r","-","y","e","a","r"," ","g","r","o","w","t","h">>,
        query |-> "DAX_EXAMPLES[6].query"] >>

\* number of characters of s from position i on that are no whitespace
RECURSIVE WordRun(_, _)
WordRun(s, i) == IF i <= Len(s) /\ ~IsSpace(s[i]) THEN 1 + WordRun(s, i + 1) ELSE 0

\* number of digits of s from position i on
RECURSIVE DigitRun(_, _)
DigitRun(s, i) == IF i <= Len(s) /\ IsDigit(s[i]) THEN 1 + DigitRun(s, i + 1) ELSE 0

\* set(s.split()): the words of s
WordSet(s) ==
    {SubSeq(s, i, i + WordRun(s, i) - 1) :
        i \in {i \in DOMAIN s : ~IsSpace(s[i]) /\ (i = 1 \/ IsSpace(s[i - 1]))}}

\* s.replace(c, '') for one character c
Without(s, c) == SelectSeq(s, LAMBDA x : x # c)

\* set(text.replace('?', '').split())
Terms(text) == WordSet(Without(text, "?"))

\* example_terms of each library entry
ExampleTerms == [e \in DOMAIN DAX_EXAMPLES |-> Terms(Lower(DAX_EXAMPLES[e].question))]

\* question.lower().strip()
NormalizedInput(question) == Strip(Lower(question))

\* example['question'].lower().strip() of each library entry
NormalizedExamples == [e \in DOMAIN DAX_EXAMPLES |-> Strip(Lower(DAX_EXAMPLES[e].question))]

\* s.find(p), counted from 1; 0 when p is not in s
FindText(s, p) ==
    IF Contains(s, p) THEN CHOOSE i \in 1..(Len(s) + 1) :
                               MatchAt(s, p, i) /\ \A j \in 1..(i - 1) : ~MatchAt(s, p, j)
    ELSE 0

\* highest_similarity = 0.5, as a fraction
MinSimilarity == <<1, 2>>

\* a / b >= c / d
Above_OrEqual(x, y) == x[1] * y[2] >= y[1] * x[2]
\* a / b > c / d
Above(x, y) == x[1] * y[2] > y[1] * x[2]

year_2023 == <<"2","0","2","3">>
year_2024 == <<"2","0","2","4">>
\* the years looked for in the question, for a template of 2023 and of 2024
YearsFor2023 == << <<"2","0","2","0">>, <<"2","0","2","1">>, <<"2","0","2","2">>, year_2024, <<"2","0","2","5">> >>
YearsFor2024 == << <<"2","0","2","0">>, <<"2","0","2","1">>, <<"2","0","2","2">>, year_2023, <<"2","0","2","5">> >>

\* f"Year: from {template_year} to {year}" for every listed year of the
\* question, when the template names template_year and the question does not
YearHints(example_question, normalized_input, template_year, years) ==
    IF Contains(example_question, template_year) /\ ~Contains(normalized_input, template_year)
    THEN LET found == SelectSeq(years, LAMBDA year : Contains(normalized_input, year))
         IN  [k \in DOMAIN found |->
                <<"Y","e","a","r",":"," ","f","r","o","m"," ">> \o template_year \o <<" ","t","o"," ">> \o found[k]]
    ELSE <<>>

kw_TOP == <<"T","O","P">>
\* re.search(r"TOP\s+(\d+)", text, re.IGNORECASE): <<group(1)>>, <<>> for None
TopN(text) ==
    LET hit(i) == /\ MatchAt(Upper(text), kw_TOP, i)
                  /\ SpaceRun(text, i + 3) >= 1
                  /\ DigitRun(text, i + 3 + SpaceRun(text, i + 3)) >= 1
        hits == {i \in DOMAIN text : hit(i)}
    IN  IF hits = {} THEN <<>>
        ELSE LET i == CHOOSE i \in hits : \A j \in hits : i <= j
                 d == i + 3 + SpaceRun(text, i + 3)
             IN  <<SubSeq(text, d, d + DigitRun(text, d) - 1)>>

\* f"TOP N: from {example_top.group(1)} to {user_top.group(1)}"
TopHints(example_question, normalized_input) ==
    LET example_top == TopN(example_question)
        user_top == TopN(normalized_input)
    IN  IF example_top # <<>> /\ user_top # <<>> /\ example_top[1] # user_top[1]
        THEN << <<"T","O","P"," ","N",":"," ","f","r","o","m"," ">> \o example_top[1] \o <<" ","t","o"," ">> \o user_top[1] >>
        ELSE <<>>

P231 == <<"P","2","3","1">>
\* re.search(r"[Pp]\d{3}", text): <<group()>>, <<>> for None
ProductCode(text) ==
    LET hits == {i \in DOMAIN text : text[i] \in {"P", "p"} /\ DigitRun(text, i + 1) >= 3}
    IN  IF hits = {} THEN <<>>
        ELSE <<SubSeq(text, CHOOSE i \in hits : \A j \in hits : i <= j,
                      (CHOOSE i \in hits : \A j \in hits : i <= j) + 3)>>

\* f"Product Code: from P231 to {product_match.group()}"
ProductHints(example_question, normalized_input) ==
    IF /\ Contains(example_question, P231)
       /\ ~Contains(normalized_input, P231)
       /\ ProductCode(normalized_input) # <<>>
    THEN << <<"P","r","o","d","u","c","t"," ","C","o","d","e",":"," ","f","r","o","m"," ","P","2","3","1"," ","t","o"," ">> \o ProductCode(normalized_input)[1] >>
    ELSE <<>>

DigitalSolutions == <<"D","i","g","i","t","a","l"," ","S","o","l","u","t","i","o","n","s">>
bu_words == << <<"B","U">>, <<"s","o","u","s"," ","b","u">>, <<"b","u","s","i","n","e","s","s"," ","u","n","i","t">> >>
BUHint == <<"B","u","s","i","n","e","s","s"," ","U","n","i","t",":"," ","f","r","o","m"," ","D","i","g","i","t","a","l"," ","S","o","l","u","t","i","o","n","s"," ","t","o"," ","a"," ","d","i","f","f","e","r","e","n","t"," ","B","U">>

\* one hint for every bu_word of the question that has text after it
BUHints(example_question, normalized_input) ==
    IF Contains(example_question, DigitalSolutions) /\ ~Contains(normalized_input, DigitalSolutions)
    THEN LET named(bu_word) ==
                 /\ Contains(normalized_input, bu_word)
                 /\ LET bu_pos == FindText(normalized_input, bu_word) + Len(bu_word)
                    IN  Strip(Slice(normalized_input, bu_pos,
                                    IF bu_pos + 29 > Len(normalized_input)
                                    THEN Len(normalized_input) ELSE bu_pos + 29)) # <<>>
             found == SelectSeq(bu_words, named)
         IN  [k \in DOMAIN found |-> BUHint]
    ELSE <<>>

\* params_to_adapt of one library entry
ParamsToAdapt(e, normalized_input) ==
    YearHints(DAX_EXAMPLES[e].question, normalized_input, year_2023, YearsFor2023) \o
    YearHints(DAX_EXAMPLES[e].question, normalized_input, year_2024, YearsFor2024) \o
    TopHints(DAX_EXAMPLES[e].question, normalized_input) \o
    ProductHints(DAX_EXAMPLES[e].question, normalized_input) \o
    BUHints(DAX_EXAMPLES[e].question, normalized_input)

\* similarity of library entry e: len(common_terms) / len(example_terms)
Similarity(e, user_terms) ==
    <<Cardinality(ExampleTerms[e] \cap user_terms), Cardinality(ExampleTerms[e])>>

\* the loop over the library: the entry of best_match (0 for None) once
\* entries e.. have been looked at, best being the entry found so far
RECURSIVE BestFrom(_, _, _, _)
BestFrom(e, user_terms, best, highest_similarity) ==
    IF e > Len(DAX_EXAMPLES) THEN best
    ELSE IF /\ Cardinality(ExampleTerms[e]) > 0
            /\ Above(Similarity(e, user_terms), highest_similarity)
    THEN BestFrom(e + 1, user_terms, e, Similarity(e, user_terms))
    ELSE BestFrom(e + 1, user_terms, best, highest_similarity)

\* what _run returns: the kind of its text and what the text holds
MatchResult(kind, e, similarity, params_to_adapt) ==
    [kind |-> kind,
     template_question |-> IF e = 0 THEN <<>> ELSE DAX_EXAMPLES[e].question,
     query |-> IF e = 0 THEN "" ELSE DAX_EXAMPLES[e].query,
     similarity |-> similarity,
     params_to_adapt |-> params_to_adapt]
NoMatchResult == MatchResult("none", 0, <<0, 1>>, <<>>)

\* MatchQueryExampleTool._run
MatchRun(question) ==
    IF question = <<>> THEN MatchResult("error", 0, <<0, 1>>, <<>>)
    ELSE LET normalized_input == NormalizedInput(question)
             exact == {e \in DOMAIN DAX_EXAMPLES : normalized_input = NormalizedExamples[e]}
             similar(user_terms) ==
                 LET best == BestFrom(1, user_terms, 0, MinSimilarity)
                 IN  IF best = 0 THEN MatchResult("NO_MATCH", 0, <<0, 1>>, <<>>)
                     ELSE MatchResult("SIMILAR_MATCH", best, Similarity(best, user_terms),
                                      ParamsToAdapt(best, normalized_input))
         IN  IF exact # {}
             THEN MatchResult("EXACT_MATCH", CHOOSE e \in exact : \A f \in exact : e <= f,
                              <<0, 1>>, <<>>)
             ELSE CHOOSE out \in {similar(user_terms) : user_terms \in {Terms(normalized_input)}} : TRUE

(***************************************************************************)
(* The matcher at work: the questions it is asked                          *)
(***************************************************************************)
\* s.split(): the words of s in their order
RECURSIVE SplitFrom(_, _)
SplitFrom(s, i) ==
    IF i > Len(s) THEN <<>>
    ELSE IF IsSpace(s[i]) THEN SplitFrom(s, i + 1)
    ELSE <<SubSeq(s, i, i + WordRun(s, i) - 1)>> \o SplitFrom(s, i + WordRun(s, i))

\* sep.join(words)
RECURSIVE Join(_, _)
Join(words, sep) ==
    IF words = <<>> THEN <<>>
    ELSE IF Len(words) = 1 THEN words[1]
    ELSE words[1] \o sep \o Join(Tail(words), sep)

\* a library question cut short at either end: what is left of it after
\* words have been dropped from its end or from its beginning
CutQuestions ==
    UNION {{Join(SubSeq(words, 1, k), <<" ">>) : k \in 1..Len(words)} \cup
           {Join(SubSeq(words, k, Len(words)), <<" ">>) : k \in 1..Len(words)} :
           words \in {SplitFrom(DAX_EXAMPLES[e].question, 1) : e \in DOMAIN DAX_EXAMPLES}}

\* another year or product code put in the place of the template's
Swaps ==
    { <<year_2024, year_2023>>, <<year_2024, <<"2","0","2","5">> >>, <<year_2024, <<"2","0","1","9">> >>,
      <<year_2023, year_2024>>, <<P231, <<"P","5","0","0">> >>, <<P231, <<"p","2","3","1">> >> }

\* the ways a question is put: as it is, in capitals, with blanks around
\* it, with two blanks between its words, with a question mark, with a word
\* before it, with another year or code
Variants(q) ==
    { q, Upper(q), <<" ", " ">> \o q \o <<" ", "\n">>, Replace(q, <<" ">>, <<" ", " ">>),
      q \o <<"?">>, <<"p","l","e","a","s","e"," ">> \o q } \cup
    { Replace(q, swap[1], swap[2]) : swap \in Swaps }

\* the questions put to the matcher: the library's own in their variants, the
\* empty one, one close to two library questions, two close to none
MatchQuestions ==
    UNION {Variants(q) : q \in CutQuestions} \cup
    { <<>>, <<"g","i","v","e"," ","m","e"," ","t","h","e"," ","t","o","t","a","l"," ","r","e","v","e","n","u"," ","o","f"," ","t","h","e"," ","b","e","s","t"," ","s","e","l","l","i","n","g"," ","t","h","r","e","e"," ","p","r","o","d","u","c","t","s"," ","i","n"," ","t","h","e"," ","y","e","a","r"," ","2","0","2","4">>,
      <<"t","o","p"," ","5"," ","p","r","o","d","u","c","t","s"," ","b","y"," ","r","e","v","e","n","u","e"," ","i","n"," ","2","0","2","5">>, <<"b","o","n","j","o","u","r">> }

MatchInit ==
    /\ match_question \in MatchQuestions
    /\ match_output = NoMatchResult
    /\ match_pc = "start"

MatchIdle ==
    /\ match_question = <<>>
    /\ match_output = NoMatchResult
    /\ match_pc = "idle"

\* the reasoning loop calls the matcher with a question
MatchQueryExample ==
    /\ match_pc = "start"
    /\ match_output' = MatchRun(match_question)
    /\ match_pc' = "matched"
    /\ UNCHANGED <<match_question, notMatch>>

(***************************************************************************)
(* The no-results recovery of the reasoning loop                           *)
(***************************************************************************)
\* "For BU entities: Try PT[BU] -> PT[Sous BU] -> PT[Pôle]": the columns an
\* entity is looked for in, in their order
fallbackColumns == <<"PT[BU]", "PT[Sous BU]", "PT[Pôle]">>

\* the rows of the engine's answer to a query of the loop: none, or some
RowCounts == {0, 1}

ResolveIdle ==
    /\ executions = 0
    /\ zero_rows = FALSE

\* an iteration whose text is an Action of the query tool, the tool's run
\* taken as one step: the observation is the text of an empty result or of a
\* table.  zero_rows tells that the last run of a query gave no rows, and
\* executions counts the runs that followed such a run and gave none either.
AgentRunsQuery ==
    /\ agent_pc = "loop"
    /\ iterations < max_iterations
    /\ \E rows \in RowCounts :
           /\ last_observation' = (IF rows = 0 THEN "empty" ELSE "table")
           /\ executions' = (IF rows = 0 /\ zero_rows THEN executions + 1 ELSE 0)
           /\ zero_rows' = (rows = 0)
    /\ iterations' = iterations + 1
    /\ UNCHANGED <<agent_pc, agent_response, answer>>
    /\ UNCHANGED <<cleanVars, authVars, fmtVars, execVars, toolVars, matchVars, repairVars, sessionVars>>

(***************************************************************************)
(* The repair and the diagnosis of a query, each applied on its own        *)
(***************************************************************************)
\* how a query begins, what stands before its expression, and its expression
QueryHeads == { <<"E","V","A","L","U","A","T","E"," ">>, <<"e","v","a","l","u","a","t","e","\n">>, <<>> }
QueryComments == { <<>>, <<"-","-"," ","t","o","t","a","l","\n">>, <<"/","*"," ","x"," ","*","/"," ">> }
QueryBodies ==
    { <<"C","A","L","C","U","L","A","T","E","(","[","C","A","]",")">>,
      <<"C","A","L","C","U","L","A","T","E","(","[","C","A","]",","," ","V","A","L","U","E","S","(","T","[","c","]",")",")">>,
      <<"C","A","L","C","U","L","A","T","E","(","[","C","A","]",","," ","T","O","P","N","(","1",","," ","T",")",")">>,
      <<"c","a","l","c","u","l","a","t","e","(","[","C","A","]",","," ","T","[","d","i","s","t","i","n","c","t","]"," ","="," ","1",")">>,
      <<"R","O","W","(",DQ,"R",DQ,","," ","C","A","L","C","U","L","A","T","E","(","[","C","A","]",")",")">>,
      <<"S","U","M","M","A","R","I","Z","E","C","O","L","U","M","N","S","(","T","[","c","]",")">>,
      <<"T","O","P","N","(","1",","," ","T",")">>,
      <<"C","A","L","C","U","L","A","T","E"," ","(","[","C","A","]",")">>,
      <<"C","A","L","C","U","L","A","T","E","(","[","C","A","]">>,
      <<"C","A","L","C","U","L","A","T","E","(","[","C","A","]",")",")">>,
      <<"V","A","R"," ","x"," ","="," ","(","1">>, <<"{","[","[","C","A","]","]","}">>,
      <<"{","[","C","A","]","/","N","-","1","}">>, <<"T">>,
      <<"V","A","R"," ","x"," ","="," ","1"," ","R","E","T","U","R","N"," ","{","x","}">> }

\* the queries the functions are applied to
RepairQueries == {h \o c \o b : h \in QueryHeads, c \in QueryComments, b \in QueryBodies}

\* the engine's message handed to the diagnosis
RepairErrorText == <<"Q","u","e","r","y"," ","(","1",","," ","1","0",")"," ","T","h","e"," ","e","x","p","r","e","s","s","i","o","n"," ","s","p","e","c","i","f","i","e","d"," ","i","n"," ","t","h","e"," ","q","u","e","r","y"," ","i","s"," ","n","o","t"," ","a"," ","v","a","l","i","d"," ","t","a","b","l","e"," ","e","x","p","r","e","s","s","i","o","n",".">>

RepairInit ==
    /\ rep_query \in RepairQueries
    /\ rep_cleaned = <<>>
    /\ rep_submitted = <<>>
    /\ rep_fixed = <<>>
    /\ rep_diagnosis = <<>>
    /\ rep_pc = "start"

RepairIdle ==
    /\ rep_query = <<>>
    /\ rep_cleaned = <<>>
    /\ rep_submitted = <<>>
    /\ rep_fixed = <<>>
    /\ rep_diagnosis = <<>>
    /\ rep_pc = "idle"

\* steps 1 and 2 of _run: the query is cleaned and, where it looks like an
\* invalid table expression, repaired; the outcome is what is submitted
RepairPrepare ==
    /\ rep_pc = "start"
    /\ rep_cleaned' = _clean_query(rep_query)
    /\ rep_submitted' = Prepared(rep_query)
    /\ rep_pc' = "prepared"
    /\ UNCHANGED <<rep_query, rep_fixed, rep_diagnosis, notRepair>>

\* after a rejection _fix_invalid_table_expression is applied to the query that was submitted
RepairFix ==
    /\ rep_pc = "prepared"
    /\ rep_fixed' = _fix_invalid_table_expression(rep_submitted)
    /\ rep_pc' = "fixed"
    /\ UNCHANGED <<rep_query, rep_cleaned, rep_submitted, rep_diagnosis, notRepair>>

\* after a rejection _diagnose_syntax_error is applied to the query that was submitted
RepairDiagnose ==
    /\ rep_pc = "fixed"
    /\ rep_diagnosis' = _diagnose_syntax_error(rep_submitted, RepairErrorText)
    /\ rep_pc' = "diagnosed"
    /\ UNCHANGED <<rep_query, rep_cleaned, rep_submitted, rep_fixed, notRepair>>

(***************************************************************************)
(* The accounts (auth/routes.py, auth/dependencies.py) and the chat over   *)
(* the WebSocket (main.py, chat/services.py).  A credentials stands for the id   *)
(* of the user it was issued to; passwords and addresses are left out.     *)
(***************************************************************************)
MaxUsers == 3
MaxTurns == 2

UserIds == 1..MaxUsers
\* the user ids a client may put into the path of the socket; 0 is no user's
PathIds == 0..MaxUsers
Sockets == {"ws1", "ws2"}
NoSocket == "none"
\* UserStatus and UserRole
UserStatus == {"pending", "approved", "rejected", "suspended"}
UserRole == {"user", "admin"}

User(status, role, is_active) == [status |-> status, role |-> role, is_active |-> is_active]
NoUser == User("none", "none", FALSE)

UserExists(user_id) == user_id \in UserIds /\ users[user_id] # NoUser

\* the users a question may come from, as get_current_user tells them
ApprovedAndActive(user_id) ==
    /\ UserExists(user_id)
    /\ users[user_id].status = "approved"
    /\ users[user_id].is_active

\* get_current_user: the bearer of the credentials is a user, approved and active
get_current_user(credentials) ==
    /\ credentials \in tokens
    /\ UserExists(credentials)
    /\ users[credentials].status = "approved"
    /\ users[credentials].is_active

\* get_current_admin_user
get_current_admin_user(credentials) ==
    /\ get_current_user(credentials)
    /\ users[credentials].role = "admin"

\* the id of a new row: one more than the highest id of the table
NextId(ids) == IF ids = {} THEN 1 ELSE (CHOOSE i \in ids : \A j \in ids : j <= i) + 1

ExistingUsers == {u \in UserIds : users[u] # NoUser}

\* the conversations of a user and their messages are deleted with the user
WithoutConversationsOf(user_id) ==
    [c \in DOMAIN conversations |-> IF conversations[c] = user_id THEN 0 ELSE conversations[c]]
WithoutMessagesOf(user_id) ==
    SelectSeq(messages, LAMBDA m : conversations[m.conversation_id] # user_id)

chatRest == <<active_connections, ws, calls, asked, delivered>>

\* register: the new user is pending, of role user and inactive
register ==
    /\ NextId(ExistingUsers) \in UserIds
    /\ users' = [users EXCEPT ![NextId(ExistingUsers)] = User("pending", "user", FALSE)]
    /\ UNCHANGED <<tokens, conversations, messages, chatRest, notSession>>

\* login: a credentials is issued to a user who is approved and active
login(user_id) ==
    /\ UserExists(user_id)
    /\ users[user_id].status \notin {"pending", "rejected", "suspended"}
    /\ users[user_id].is_active
    /\ tokens' = tokens \cup {user_id}
    /\ UNCHANGED <<users, conversations, messages, chatRest, notSession>>

\* approve_or_reject_user
approve_or_reject_user(credentials, user_id, action) ==
    /\ get_current_admin_user(credentials)
    /\ UserExists(user_id)
    /\ users[user_id].status = "pending"
    /\ users' = [users EXCEPT ![user_id] =
                    IF action = "approve"
                    THEN User("approved", users[user_id].role, TRUE)
                    ELSE User("rejected", users[user_id].role, users[user_id].is_active)]
    /\ UNCHANGED <<tokens, conversations, messages, chatRest, notSession>>

\* update_user_status
update_user_status(credentials, user_id, new_status) ==
    /\ get_current_admin_user(credentials)
    /\ UserExists(user_id)
    /\ users' = [users EXCEPT ![user_id] =
                    User(new_status, users[user_id].role,
                         IF new_status = "approved" THEN TRUE
                         ELSE IF new_status \in {"rejected", "suspended"} THEN FALSE
                         ELSE users[user_id].is_active)]
    /\ UNCHANGED <<tokens, conversations, messages, chatRest, notSession>>

\* update_user_role
update_user_role(credentials, user_id, new_role) ==
    /\ get_current_admin_user(credentials)
    /\ UserExists(user_id)
    /\ user_id # credentials
    /\ users' = [users EXCEPT ![user_id] = User(users[user_id].status, new_role, users[user_id].is_active)]
    /\ UNCHANGED <<tokens, conversations, messages, chatRest, notSession>>

\* delete_user_by_admin
delete_user_by_admin(credentials, user_id) ==
    /\ get_current_admin_user(credentials)
    /\ UserExists(user_id)
    /\ user_id # credentials
    /\ conversations' = WithoutConversationsOf(user_id)
    /\ messages' = WithoutMessagesOf(user_id)
    /\ users' = [users EXCEPT ![user_id] = NoUser]
    /\ UNCHANGED <<tokens, chatRest, notSession>>

\* delete_my_account
delete_my_account(credentials) ==
    /\ get_current_user(credentials)
    /\ conversations' = WithoutConversationsOf(credentials)
    /\ messages' = WithoutMessagesOf(credentials)
    /\ users' = [users EXCEPT ![credentials] = NoUser]
    /\ UNCHANGED <<tokens, chatRest, notSession>>

\* one approved and active admin, nobody logged in
AccountsInit ==
    /\ users = [u \in UserIds |-> IF u = 1 THEN User("approved", "admin", TRUE) ELSE NoUser]
    /\ tokens = {}

\* ConnectionManager.__init__ and the empty tables
NoCall == [pc |-> "idle", user_id |-> 0, conversation |-> 0, turn |-> 0]
ChatIdle ==
    /\ active_connections = [p \in PathIds |-> NoSocket]
    /\ ws = [s \in Sockets |-> [pc |-> "closed", user_id |-> 0]]
    /\ calls = [s \in Sockets |-> NoCall]
    /\ conversations = <<>>
    /\ messages = <<>>
    /\ asked = <<>>
    /\ delivered = [from |-> NoSocket, to |-> NoSocket]

SessionIdle == AccountsInit /\ ChatIdle

\* an admin, a user who registered and waits for the approval, and an
\* approved user
ChatUsers ==
    [u \in UserIds |->
        IF u = 1 THEN User("approved", "admin", TRUE)
        ELSE IF u = 2 THEN User("pending", "user", FALSE)
        ELSE User("approved", "user", TRUE)]

ChatInit ==
    /\ users = ChatUsers
    /\ tokens = {}
    /\ ChatIdle

Message(conversation_id, is_user, turn) ==
    [conversation_id |-> conversation_id, is_user |-> is_user, turn |-> turn]

\* the conversation with this id when it is the user's, 0 when there is none
FindConversation_ByIdOnly(conversation_id, user_id_int) ==
    IF conversation_id \in DOMAIN conversations /\ conversations[conversation_id] # 0
    THEN conversation_id
    ELSE 0
FindConversation(conversation_id, user_id_int) ==
    IF conversation_id \in DOMAIN conversations /\ conversations[conversation_id] = user_id_int
    THEN conversation_id
    ELSE 0

\* ChatService.process_message up to the call of the agent: the user is
\* looked up, the conversation found or created and the user message saved;
\* for an unknown user it raises and nothing is saved
process_message(caller, user_id, conversation_id) ==
    /\ calls[caller].pc = "idle"
    /\ Len(asked) < MaxTurns
    /\ LET turn == Len(asked) + 1
           found == FindConversation(conversation_id, user_id)
           conversation == IF found # 0 THEN found ELSE Len(conversations) + 1
       IN  /\ asked' = Append(asked, [user_id |-> user_id, conversation_id |-> conversation_id,
                                      before |-> Len(conversations)])
           /\ IF UserExists(user_id)
              THEN /\ conversations' = IF found # 0 THEN conversations ELSE Append(conversations, user_id)
                   /\ messages' = Append(messages, Message(conversation, TRUE, turn))
                   /\ calls' = [calls EXCEPT ![caller] =
                                   [pc |-> "awaiting", user_id |-> user_id,
                                    conversation |-> conversation, turn |-> turn]]
              ELSE UNCHANGED <<conversations, messages, calls>>
    /\ UNCHANGED <<users, tokens, notSession>>

\* ChatService.process_message from the answer of the agent on: the agent
\* message is saved in the conversation of the turn
process_message_return(caller) ==
    /\ calls[caller].pc = "awaiting"
    /\ messages' = Append(messages, Message(calls[caller].conversation, FALSE, calls[caller].turn))
    /\ calls' = [calls EXCEPT ![caller] = NoCall]
    /\ UNCHANGED <<users, tokens, conversations, asked, notSession>>

\* a caller of process_message other than a socket
Asks(caller, user_id, conversation_id) ==
    /\ process_message(caller, user_id, conversation_id)
    /\ UNCHANGED <<active_connections, ws, delivered>>

Answered(caller) ==
    /\ process_message_return(caller)
    /\ UNCHANGED <<active_connections, ws, delivered>>

\* ConnectionManager.send_personal_message: the text goes to the socket
\* registered under the user id, and nowhere when none is; delivered holds
\* the last response, the socket of its question and the socket it went to
send_personal_message(origin, user_id) ==
    [from |-> origin, to |-> active_connections[user_id]]

\* ConnectionManager.connect, at the head of websocket_endpoint
connect(websocket, user_id) ==
    /\ ws[websocket].pc = "closed"
    /\ active_connections' = [active_connections EXCEPT ![user_id] = websocket]
    /\ ws' = [ws EXCEPT ![websocket] = [pc |-> "open", user_id |-> user_id]]
    /\ UNCHANGED <<users, tokens, calls, conversations, messages, asked, delivered, notSession>>

\* ConnectionManager.disconnect, when receive_text raises WebSocketDisconnect
disconnect(websocket) ==
    /\ ws[websocket].pc = "open"
    /\ calls[websocket].pc = "idle"
    /\ active_connections' = [active_connections EXCEPT ![ws[websocket].user_id] = NoSocket]
    /\ ws' = [ws EXCEPT ![websocket] = [pc |-> "closed", user_id |-> 0]]
    /\ UNCHANGED <<users, tokens, calls, conversations, messages, asked, delivered, notSession>>

\* websocket_endpoint receives a question and calls process_message under
\* the user id of its path; when that has raised, the answer with the error
\* is sent at once
receive_text(websocket, conversation_id) ==
    /\ ws[websocket].pc = "open"
    /\ process_message(websocket, ws[websocket].user_id, conversation_id)
    /\ delivered' = IF UserExists(ws[websocket].user_id) THEN delivered
                    ELSE send_personal_message(websocket, ws[websocket].user_id)
    /\ UNCHANGED <<active_connections, ws>>

\* process_message has returned: websocket_endpoint sends the response
\* through the manager
send_response(websocket) ==
    /\ ws[websocket].pc = "open"
    /\ process_message_return(websocket)
    /\ delivered' = send_personal_message(websocket, ws[websocket].user_id)
    /\ UNCHANGED <<active_connections, ws>>

(***************************************************************************)
(* The specifications: one per component, the other components at rest     *)
(***************************************************************************)
\* _clean_query on every raw query
InitClean == CleanInit /\ AuthIdle /\ FmtIdle /\ ExecIdle /\ ToolIdle /\ AgentIdle /\ MatchIdle /\ ResolveIdle /\ RepairIdle /\ SessionIdle
NextClean == CleanQuery \/ CleanAgain
SpecClean == InitClean /\ [][NextClean]_vars

\* threads calling get_headers and refresh_token_if_needed against the one
\* auth manager of the process
InitAuth == AuthInit /\ CleanIdle /\ FmtIdle /\ ExecIdle /\ ToolIdle /\ AgentIdle /\ MatchIdle /\ ResolveIdle /\ RepairIdle /\ SessionIdle
NextAuth ==
    \/ \E t \in Threads :
        \/ GetHeaders(t)
        \/ RefreshIfNeeded(t)
        \/ GetTokenCached(t)
        \/ GetTokenRefresh(t)
        \/ IdpGrants(t)
        \/ IdpGrantsNoExpiry(t)
        \/ IdpFails(t)
    \/ Tick
SpecAuth == InitAuth /\ [][NextAuth]_vars

\* one call of execute_query_with_retry by thread Requester, while the other
\* threads use the auth manager
InitRetry == AuthInit /\ CleanIdle /\ FmtIdle /\ ExecIdle /\ ToolIdle /\ AgentIdle /\ MatchIdle /\ ResolveIdle /\ RepairIdle /\ SessionIdle
NextRetry ==
    \/ StartRequest(Requester)
    \/ SendAnswered(Requester)
    \/ SendRaises(Requester)
    \/ \E t \in Threads \ {Requester} :
        \/ GetHeaders(t)
        \/ RefreshIfNeeded(t)
    \/ \E t \in Threads :
        \/ GetTokenCached(t)
        \/ GetTokenRefresh(t)
        \/ IdpGrants(t)
        \/ IdpGrantsNoExpiry(t)
        \/ IdpFails(t)
    \/ Tick
SpecRetry == InitRetry /\ [][NextRetry]_vars

\* _format_results on every result
InitFormat == FmtInit /\ CleanIdle /\ AuthIdle /\ ExecIdle /\ ToolIdle /\ AgentIdle /\ MatchIdle /\ ResolveIdle /\ RepairIdle /\ SessionIdle
NextFormat == FormatResults
SpecFormat == InitFormat /\ [][NextFormat]_vars

\* one call of execute_query by thread Requester
InitExecute == ExecInit /\ AuthInit /\ CleanIdle /\ FmtIdle /\ ToolIdle /\ AgentIdle /\ MatchIdle /\ ResolveIdle /\ RepairIdle /\ SessionIdle
NextExecute ==
    \/ ExecuteQuery
    \/ ExecuteQueryReturns(Bodies200)
    \/ GetTokenCached(Requester)
    \/ GetTokenRefresh(Requester)
    \/ IdpGrants(Requester)
    \/ IdpGrantsNoExpiry(Requester)
    \/ IdpFails(Requester)
    \/ SendAnswered(Requester)
    \/ SendRaises(Requester)
    \/ Tick
SpecExecute == InitExecute /\ [][NextExecute]_vars

\* one call of the query tool by thread Requester
InitTool == ToolInit /\ ExecIdle /\ AuthInit /\ CleanIdle /\ FmtIdle /\ AgentIdle /\ MatchIdle /\ ResolveIdle /\ RepairIdle /\ SessionIdle
NextTool ==
    \/ ToolRunEmpty
    \/ ToolRun
    \/ ToolReturns
    \/ ExecuteQueryReturns(ToolTables)
    \/ GetTokenCached(Requester)
    \/ GetTokenRefresh(Requester)
    \/ IdpGrants(Requester)
    \/ IdpGrantsNoExpiry(Requester)
    \/ IdpFails(Requester)
    \/ SendAnswered(Requester)
    \/ SendRaises(Requester)
    \/ Tick
SpecTool == InitTool /\ [][NextTool]_vars

\* one question put to the agent, its query tool run by thread Requester
InitAgent == AgentInit /\ ToolIdle /\ ExecIdle /\ AuthInit /\ CleanIdle /\ FmtIdle /\ MatchIdle /\ ResolveIdle /\ RepairIdle /\ SessionIdle
NextAgent ==
    \/ ProcessQuery
    \/ AgentCallsQueryTool
    \/ AgentObserves
    \/ AgentOtherStep
    \/ AgentFinishes
    \/ AgentStops
    \/ AgentRaises
    \/ ProcessQueryReturns
    \/ ToolRunEmpty
    \/ ToolRun
    \/ ToolReturns
    \/ ExecuteQueryReturns(AgentTables)
    \/ GetTokenCached(Requester)
    \/ GetTokenRefresh(Requester)
    \/ IdpGrants(Requester)
    \/ IdpGrantsNoExpiry(Requester)
    \/ IdpFails(Requester)
    \/ SendAnswered(Requester)
    \/ SendRaises(Requester)
    \/ Tick
SpecAgent == InitAgent /\ [][NextAgent]_vars

\* one call of the example matcher
InitMatch == MatchInit /\ CleanIdle /\ AuthIdle /\ FmtIdle /\ ExecIdle /\ ToolIdle /\ AgentIdle /\ ResolveIdle /\ RepairIdle /\ SessionIdle
NextMatch == MatchQueryExample
SpecMatch == InitMatch /\ [][NextMatch]_vars

\* one question whose queries are run as single steps
InitResolve == AgentInit /\ ResolveIdle /\ CleanIdle /\ AuthIdle /\ FmtIdle /\ ExecIdle /\ ToolIdle /\ MatchIdle /\ RepairIdle /\ SessionIdle
NextResolve ==
    \/ ProcessQuery
    \/ AgentRunsQuery
    \/ AgentOtherStep
    \/ AgentFinishes
    \/ AgentStops
    \/ AgentRaises
    \/ ProcessQueryReturns
SpecResolve == InitResolve /\ [][NextResolve]_vars

\* the repair and the diagnosis applied to one query
InitRepair == RepairInit /\ CleanIdle /\ AuthIdle /\ FmtIdle /\ ExecIdle /\ ToolIdle /\ AgentIdle /\ MatchIdle /\ ResolveIdle /\ SessionIdle
NextRepair ==
    \/ RepairPrepare
    \/ RepairFix
    \/ RepairDiagnose
SpecRepair == InitRepair /\ [][NextRepair]_vars

\* the accounts under the requests of users and admins
InitAccounts == AccountsInit /\ ChatIdle /\ CleanIdle /\ AuthIdle /\ FmtIdle /\ ExecIdle /\ ToolIdle /\ AgentIdle /\ MatchIdle /\ ResolveIdle /\ RepairIdle
NextAccounts ==
    \/ register
    \/ \E user_id \in UserIds : login(user_id)
    \/ \E credentials \in UserIds, user_id \in UserIds, action \in {"approve", "reject"} :
           approve_or_reject_user(credentials, user_id, action)
    \/ \E credentials \in UserIds, user_id \in UserIds, new_status \in UserStatus :
           update_user_status(credentials, user_id, new_status)
    \/ \E credentials \in UserIds, user_id \in UserIds, new_role \in UserRole :
           update_user_role(credentials, user_id, new_role)
    \/ \E credentials \in UserIds, user_id \in UserIds : delete_user_by_admin(credentials, user_id)
    \/ \E credentials \in UserIds : delete_my_account(credentials)
SpecAccounts == InitAccounts /\ [][NextAccounts]_vars

\* the chat of two sockets
InitChat == ChatInit /\ CleanIdle /\ AuthIdle /\ FmtIdle /\ ExecIdle /\ ToolIdle /\ AgentIdle /\ MatchIdle /\ ResolveIdle /\ RepairIdle
NextChat ==
    \/ \E websocket \in Sockets, user_id \in PathIds : connect(websocket, user_id)
    \/ \E websocket \in Sockets, conversation_id \in 0..MaxTurns : receive_text(websocket, conversation_id)
    \/ \E websocket \in Sockets : send_response(websocket)
    \/ \E websocket \in Sockets : disconnect(websocket)
SpecChat == InitChat /\ [][NextChat]_vars

\* process_message under two callers at a time
InitTurns == ChatInit /\ CleanIdle /\ AuthIdle /\ FmtIdle /\ ExecIdle /\ ToolIdle /\ AgentIdle /\ MatchIdle /\ ResolveIdle /\ RepairIdle
NextTurns ==
    \/ \E caller \in Sockets, user_id \in PathIds, conversation_id \in 0..MaxTurns :
           Asks(caller, user_id, conversation_id)
    \/ \E caller \in Sockets : Answered(caller)
SpecTurns == InitTurns /\ [][NextTurns]_vars

(***************************************************************************)
(* Claims about _clean_query                                               *)
(***************************************************************************)
\* the wrapped raw queries, each with the body that was wrapped
WrappedWithBody ==
    { <<Wrap(body, head, quote, kind, outside, pad), body>> :
        body \in Bodies, head \in Heads, quote \in Quotes, kind \in FenceKinds,
        outside \in BOOLEAN, pad \in BOOLEAN }

\* the number of EVALUATE keywords in s, in any case
EvaluateCount(s) == Cardinality({i \in DOMAIN s : MatchAtNoCase(s, EVALUATE, i)})

\* C1: a query body wrapped in whitespace, a code fence, one layer of quotes
\* or a language tag after EVALUATE is cleaned to a string that begins with
\* EVALUATE, holds exactly one EVALUATE keyword, and is otherwise the body.
C1_CleanStripsNoise ==
    clean_pc \in {"cleaned", "recleaned"} =>
        \A w \in WrappedWithBody :
            w[1] = raw_query =>
                /\ StartsWith(cleaned_query, EVALUATE)
                /\ EvaluateCount(cleaned_query) = 1
                /\ Strip(Drop(cleaned_query, 8)) = w[2]

\* C2: cleaning is idempotent: a cleaned query is left as it is by a second
\* cleaning.
C2_CleanIdempotent ==
    clean_pc = "recleaned" => recleaned_query = cleaned_query

(***************************************************************************)
(* Claims about the credential refresh                                     *)
(***************************************************************************)
\* the call of execute_query_with_retry that SpecRetry follows
TheCall == th[Requester]

\* the call is over
CallDone == TheCall.pc = "done"

\* the call got a 401 from the engine
Saw401 == \E i \in DOMAIN TheCall.sent : TheCall.sent[i][3] = 401

\* the place in sent of the first 401
First401 == CHOOSE i \in DOMAIN TheCall.sent :
    TheCall.sent[i][3] = 401 /\ \A j \in 1..(i - 1) : TheCall.sent[j][3] # 401

\* C3 as claimed: in every call the first 401 is followed by exactly one forced
\* refresh and exactly one re-send with the refreshed credential, a 401 on
\* the re-send is returned, and no call forces more than one refresh.
C3_First401RefreshesAndResends ==
    CallDone =>
        /\ TheCall.forced <= 1
        /\ Saw401 =>
            \/ \* the first 401, one forced refresh, one re-send with its token
               /\ TheCall.forced = 1
               /\ TheCall.refreshed # NoToken
               /\ Len(TheCall.sent) = First401 + 1
               /\ TheCall.sent[First401 + 1][2] >= TheCall.refreshed
            \/ \* the 401 is the answer to that re-send
               /\ First401 > 1
               /\ TheCall.sent[First401 - 1][3] = 401

\* C3 amended: a 401 on the first attempt is followed by exactly one forced
\* refresh.  When that refresh succeeds the request is sent exactly once
\* more: with the credential cached after the refresh when the new headers
\* could be fetched, with the old headers when fetching them raised.  When the
\* refresh fails the 401 response is returned and nothing is sent again.  A
\* 401 on the last attempt (the re-send, or the retry after a send that
\* raised) is returned without any refresh.  No call forces more than one
\* refresh or sends more than twice.
C3_RefreshOnceOnFirst401 ==
    CallDone =>
        LET c == TheCall IN
        /\ c.forced <= 1
        /\ Len(c.sent) <= max_retries + 1
        /\ c.forced = 1 <=> (Len(c.sent) >= 1 /\ c.sent[1][3] = 401)
        /\ c.forced = 1 /\ c.refreshed # NoToken =>
            /\ Len(c.sent) = 2
            /\ c.sent[2][1] = 1
            /\ IF c.reheaded # NoToken
               THEN c.sent[2][2] = c.reheaded /\ c.reheaded >= c.refreshed
               ELSE c.sent[2][2] = c.sent[1][2]
        /\ c.forced = 1 /\ c.refreshed = NoToken =>
            /\ Len(c.sent) = 1
            /\ c.result = "returned"
            /\ c.response = 401
        /\ Len(c.sent) = 2 /\ c.sent[2][3] = 401 =>
            /\ c.result = "returned"
            /\ c.response = 401
            /\ c.sent[1][3] = 0 => c.forced = 0

\* a call that got 401, refreshed, sent again with the new credential, and
\* got 401 again
C3_Witness ==
    /\ CallDone
    /\ TheCall.forced = 1
    /\ Len(TheCall.sent) = 2
    /\ TheCall.sent[1][3] = 401
    /\ TheCall.sent[2][3] = 401
    /\ TheCall.sent[2][2] = TheCall.refreshed
    /\ TheCall.sent[2][2] # TheCall.sent[1][2]
    /\ TheCall.result = "returned"

\* C6: at most one call to the identity provider is in flight at any time,
\* however many threads are in get_token and whether they force or not.
C6_OneRefreshInFlight ==
    Cardinality({t \in Threads : th[t].pc = "idp"}) <= 1

\* one thread's refresh is in flight while another thread, forcing a refresh
\* itself, waits for the lock
C6_Witness ==
    \E t, u \in Threads :
        /\ t # u
        /\ th[t].pc = "idp"
        /\ th[u].pc = "get_token"
        /\ th[u].force

(***************************************************************************)
(* Claims about the result formatter                                       *)
(***************************************************************************)
\* the vocabularies as the claim names them
ClaimedDateTerms ==
    { <<"y","e","a","r">>, <<"m","o","n","t","h">>, <<"q","u","a","r","t","e","r">>,
      <<"s","e","m","e","s","t","e","r">>, <<"d","a","y">> }
ClaimedEntityTerms ==
    { <<"u","n","i","t">>, <<"v","a","r","i","a","n","c","e">>, <<"b","u","d","g","e","t">> }

\* the shape the claim gives a result of at least one record
ClaimedShape(results) ==
    LET named(terms) == \E i \in DOMAIN results[1] : AnyIn(terms, Lower(results[1][i][1]))
    IN  IF Len(results) = 1 /\ Len(results[1]) = 1 THEN "scalar"
        ELSE IF Len(results) > 1 /\ named(ClaimedDateTerms) THEN "time_series"
        ELSE IF Len(results) > 1 /\ named(ClaimedEntityTerms) THEN "bu_comparison"
        ELSE "table"

\* C9: the shape of a result is chosen by the first rule that applies: one
\* record of one field is a scalar; else several records with a column of the
\* date vocabulary (year, month, quarter, semester, day) are a time series;
\* else several records with a column of the entity vocabulary (unit,
\* variance, budget) are an entity comparison; else a generic table.
C9_ShapeByFirstRule ==
    (fmt_pc = "formatted" /\ fmt_output.shape \in {"scalar", "time_series", "bu_comparison", "table"})
        => fmt_output.shape = ClaimedShape(fmt_result.results)

\* the lines of a formatted output
LinesOf(output) ==
    {output.blocks[i].lines[j] : <<i, j>> \in
        {<<i, j>> \in (DOMAIN output.blocks) \X (1..MaxFields) : j \in DOMAIN output.blocks[i].lines}}

\* the lines that render a number as an amount
AmountLines == {l \in LinesOf(fmt_output) : l.kind = "financial" /\ IsNumber(l.value)}

\* the text of a line without the sign a variance column puts before it
Unsigned_(text) == IF text # <<>> /\ Head(text) = "+" THEN Tail(text) ELSE text

FinancialColumn(col) == ~IsPercentageColumn(col) /\ AnyIn(financial_keywords, Lower(col))

\* a value that is null, or a text that is no number once its separators,
\* euro and percent signs are taken away
NotNumeric(value) ==
    \/ value.k = "null"
    \/ value.k = "str" /\ ~IsFloatText(CleanValue(value.s))

\* C11: in every shape (scalar, time series, entity comparison, table) a
\* value of a financial column that is null or no number is written N/A.
C11_MissingAmountIsNA ==
    fmt_pc = "formatted" =>
        \A l \in LinesOf(fmt_output) :
            (FinancialColumn(l.col) /\ NotNumeric(l.value)) => l.text = NA

\* a column of the variance style: a financial column whose name holds
\* "variance" or "difference"
VarianceColumn(col) ==
    /\ FinancialColumn(col)
    /\ Contains(Lower(col), kw_variance) \/ Contains(Lower(col), kw_difference)

\* C12: in every shape a number of a variance-style financial column is
\* written with a + before the euro amount when it is positive, and as the
\* euro amount alone when it is zero or negative.
C12_PositiveVarianceSigned ==
    fmt_pc = "formatted" =>
        \A l \in LinesOf(fmt_output) :
            (VarianceColumn(l.col) /\ IsNumber(l.value)) =>
                l.text = (IF l.value.c > 0 THEN <<"+">> ELSE <<>>) \o EuroText(l.value.c)

\* C20: a percentage column (a percentage, rate or growth term in its name,
\* or a percent marker at its end) comes before the financial class in every
\* shape: its numbers are written with one decimal and a percent sign, never
\* with a euro sign, in the entity comparison too.
C20_PercentageBeforeFinancial ==
    fmt_pc = "formatted" =>
        \A l \in LinesOf(fmt_output) :
            (IsPercentageColumn(l.col) /\ IsNumber(l.value)) =>
                /\ l.text = PercentText(l.value.c)
                /\ ~Contains(l.text, <<Euro>>)

(***************************************************************************)
(* Claims about execute_query                                              *)
(***************************************************************************)
\* execute_query has returned on a 200 answer whose table has columns
ReshapedTable ==
    /\ exec_pc = "returned"
    /\ ~exec_response.raised
    /\ exec_response.status = 200
    /\ exec_response.body.kind = "table"
    /\ exec_response.body.columns # <<>>

\* C5: for a successful answer with column metadata execute_query returns one
\* record per row, each with one entry per column in the engine's order, the
\* entry's value being the row's value at the column's position: a null stays
\* null, and a position the row does not have is null.
C5_ReshapeKeepsRowsAndNulls ==
    ReshapedTable =>
        LET columns == exec_response.body.columns
            rows == exec_response.body.rows
            results == exec_result.results
        IN  /\ ~exec_result.is_error
            /\ ~exec_result.raw
            /\ Len(results) = Len(rows)
            /\ \A r \in DOMAIN rows :
                /\ Len(results[r]) = Len(columns)
                /\ \A i \in DOMAIN columns :
                    /\ columns[i].named => results[r][i][1] = columns[i].name
                    /\ i <= Len(rows[r]) => results[r][i][2] = rows[r][i]
                    /\ i > Len(rows[r]) => results[r][i][2] = Null

\* a table of two columns or more has been reshaped, one of its rows with a
\* null in it and one of its rows shorter than the columns
C5_Witness ==
    /\ ReshapedTable
    /\ Len(exec_response.body.columns) >= 2
    /\ \E r \in DOMAIN exec_response.body.rows :
        \E i \in DOMAIN exec_response.body.rows[r] :
            /\ i <= Len(exec_response.body.columns)
            /\ exec_response.body.rows[r][i] = Null
            /\ exec_result.results[r][i][2] = Null
    /\ \E r \in DOMAIN exec_response.body.rows :
        /\ Len(exec_response.body.rows[r]) < Len(exec_response.body.columns)
        /\ exec_result.results[r][Len(exec_response.body.columns)][2] = Null

(***************************************************************************)
(* Claims about the query tool                                             *)
(***************************************************************************)
\* the engine has answered the tool's query with a rejection (a 400 whose
\* text tells what is wrong with the query) and _run has returned
EngineRejected ==
    /\ tool_pc = "done"
    /\ tool_calls >= 1
    /\ ~exec_response.raised
    /\ exec_response.status = 400

\* C4: when the engine rejects the submitted query as malformed, the tool
\* sends at most one repaired query after it, and the text it returns holds
\* both the engine's error text and the diagnosis of _diagnose_syntax_error
\* for the query it sent.
C4_RejectionReturnsErrorAndDiagnosis ==
    EngineRejected =>
        /\ tool_calls <= 2
        /\ Contains(tool_output.text, exec_response.text)
        /\ Contains(tool_output.text,
                    _diagnose_syntax_error(tool_cleaned, exec_response.text))

(***************************************************************************)
(* Claims about the agent and process_query                                *)
(***************************************************************************)
\* the loop has run to the cap and invoke has handed back its dict
StoppedAtCap ==
    /\ agent_pc \in {"invoked", "returned"}
    /\ iterations >= max_iterations
    /\ ~agent_response.raised

C8_AlwaysAString ==
    /\ tool_pc = "done" => tool_output.shape \notin {"none", "raised"}
    /\ agent_pc = "returned" => answer.type = "str"

\* the query tool has failed in an iteration, the invocation has raised
\* after it, and process_query has returned its error text
C8_Witness ==
    /\ agent_pc = "returned"
    /\ last_observation = "error"
    /\ agent_response.raised
    /\ answer = Answer("str", "error_text", iterations)

(***************************************************************************)
(* Claims about the example matcher                                        *)
(***************************************************************************)
\* the question and library question e are the same words in the same order,
\* whatever the letter case and the whitespace around and between them
SameQuestion(question, e) ==
    SplitFrom(Lower(question), 1) = SplitFrom(Lower(DAX_EXAMPLES[e].question), 1)

\* C13: a question that equals a library question after normalizing letter
\* case and whitespace (leading, trailing and between words) is answered
\* with EXACT_MATCH and that entry's query
C13_ExactMatchWhateverTheWhitespace ==
    match_pc = "matched" =>
        \A e \in DOMAIN DAX_EXAMPLES :
            SameQuestion(match_question, e) =>
                /\ match_output.kind = "EXACT_MATCH"
                /\ match_output.query = DAX_EXAMPLES[e].query

\* the score of library entry e for the question: the terms they share by
\* the terms of the template question, as a pair
Score(e, question) ==
    <<Cardinality(Terms(Lower(DAX_EXAMPLES[e].question)) \cap Terms(Strip(Lower(question)))),
      Cardinality(Terms(Lower(DAX_EXAMPLES[e].question)))>>

\* the score x is more than a half
AboveThreshold(x) == 2 * x[1] > x[2]

\* the library has no entry equal to the question
NoExact(question) ==
    /\ question # <<>>
    /\ \A e \in DOMAIN DAX_EXAMPLES :
           Strip(Lower(question)) # Strip(Lower(DAX_EXAMPLES[e].question))

\* C14: when no library question equals the input, the answer is either
\* SIMILAR_MATCH for an entry whose score is the highest of the library and
\* above 0.5, or NO_MATCH, and it is NO_MATCH exactly when no entry scores
\* above 0.5
C14_BestScoreAboveThreshold ==
    (match_pc = "matched" /\ NoExact(match_question)) =>
        /\ match_output.kind \in {"SIMILAR_MATCH", "NO_MATCH"}
        /\ match_output.kind = "NO_MATCH" <=>
               \A e \in DOMAIN DAX_EXAMPLES : ~AboveThreshold(Score(e, match_question))
        /\ match_output.kind = "SIMILAR_MATCH" =>
               \E e \in DOMAIN DAX_EXAMPLES :
                   /\ match_output.template_question = DAX_EXAMPLES[e].question
                   /\ match_output.similarity = Score(e, match_question)
                   /\ AboveThreshold(Score(e, match_question))
                   /\ \A f \in DOMAIN DAX_EXAMPLES :
                          Score(f, match_question)[1] * Score(e, match_question)[2]
                              <= Score(e, match_question)[1] * Score(f, match_question)[2]

\* a question with two library entries above the threshold is answered with
\* the better of them, which is not the first
C14_Witness ==
    /\ match_pc = "matched"
    /\ NoExact(match_question)
    /\ match_output.kind = "SIMILAR_MATCH"
    /\ \E e, f \in DOMAIN DAX_EXAMPLES :
           /\ e < f
           /\ AboveThreshold(Score(e, match_question))
           /\ match_output.template_question = DAX_EXAMPLES[f].question

\* the product codes a text names: P or p and three digits
ProductCodes(text) ==
    {SubSeq(text, i, i + 3) :
        i \in {i \in DOMAIN text : text[i] \in {"P", "p"} /\ DigitRun(text, i + 1) >= 3}}

\* the years a text names: its runs of four digits
YearsNamed(text) ==
    {SubSeq(text, i, i + 3) :
        i \in {i \in DOMAIN text : /\ DigitRun(text, i) = 4
                                   /\ (i = 1 \/ ~IsDigit(text[i - 1]))}}

\* the slot has a value in the question and in the template, and not the same
SlotDiffers(in_question, in_template) ==
    in_question # {} /\ in_template # {} /\ in_question # in_template

\* a hint of the output that begins with label
HintListed(label) ==
    \E k \in DOMAIN match_output.params_to_adapt :
        StartsWith(match_output.params_to_adapt[k], label)

YearLabel == <<"Y","e","a","r",":"," ">>
ProductLabel == <<"P","r","o","d","u","c","t"," ","C","o","d","e",":"," ">>

\* C15: a SIMILAR_MATCH carries the entry's query as it is in the library,
\* and lists a hint for the year and for the product code if and only if the
\* question's value of that slot differs from the template's; the same
\* product code or the same year gets no hint
C15_HintsExactlyForDifferences ==
    (match_pc = "matched" /\ match_output.kind = "SIMILAR_MATCH") =>
        \E e \in DOMAIN DAX_EXAMPLES :
            /\ match_output.template_question = DAX_EXAMPLES[e].question
            /\ match_output.query = DAX_EXAMPLES[e].query
            /\ HintListed(ProductLabel) <=>
                   SlotDiffers(ProductCodes(match_question), ProductCodes(DAX_EXAMPLES[e].question))
            /\ HintListed(YearLabel) <=>
                   SlotDiffers(YearsNamed(match_question), YearsNamed(DAX_EXAMPLES[e].question))

(***************************************************************************)
(* Claims about entity resolution                                          *)
(***************************************************************************)
\* C16: after a query that returned no rows, a query is run again at most
\* len(fallbackColumns) + 1 times, whatever the engine returns
C16_ReExecutionsBounded ==
    executions <= Len(fallbackColumns) + 1

(***************************************************************************)
(* Claims about get_token                                                  *)
(***************************************************************************)
\* thread t has called get_token for a read of the cache: no refresh is
\* asked for, a token is cached and the clock is more than 5 minutes before
\* its expiry
ReadsValidToken(t) ==
    /\ th[t].pc = "get_token"
    /\ ~th[t].force
    /\ token # NoToken
    /\ token_expires_at # NoTime
    /\ token_expires_at - now > 5

\* C18: a thread that calls get_token while the cached credential is valid
\* can return it at once, without the refresh lock: a refresh of another
\* thread that is in flight does not hold it back
C18_ValidReadNotBlocked ==
    \A t \in Threads :
        ReadsValidToken(t) => ENABLED GetTokenCached(t)

\* the token that the step has handed to the caller of get_token, where the
\* caller keeps it
HandedOver(t, tok) ==
    /\ th[t].ret \in {"get_headers", "first_headers"} => th'[t].headers = tok
    /\ th[t].ret = "refresh" => th'[t].refreshed = tok
    /\ th[t].ret = "retry_headers" => th'[t].reheaded = tok

\* C19: get_token leaves its test with the cached token, the identity
\* provider not contacted and the cache as it was, exactly when it is not
\* forced, a token is cached and the clock is more than 5 minutes before the
\* expiry; in every other case it contacts the provider, and the token the
\* provider grants replaces the cached token and its expiry and is the one
\* returned, so that the token of a forced refresh after a 401 is newer than
\* the token the 401 was answered to
C19_CachedOnlyWhileValid ==
    [][\A t \in Threads :
          /\ (th[t].pc = "get_token" /\ th'[t] # th[t]) =>
                 IF ReadsValidToken(t)
                 THEN /\ th'[t].pc # "idp"
                      /\ HandedOver(t, token)
                      /\ UNCHANGED <<token, token_expires_at, issued>>
                 ELSE th'[t].pc = "idp"
          /\ (th[t].pc = "idp" /\ th'[t].pc # "idp" /\ token' # NoToken) =>
                 /\ token' > issued
                 /\ token' # token
                 /\ token_expires_at' # NoTime
                 /\ HandedOver(t, token')
                 /\ th[t].ret = "refresh" =>
                        \A k \in DOMAIN th[t].sent : th'[t].refreshed > th[t].sent[k][2]
      ]_vars

\* a request was answered 401, the forced refresh brought a token, and the
\* headers fetched next were served from the cache
C19_Witness ==
    \E t \in Threads :
        /\ th[t].forced = 1
        /\ th[t].refreshed # NoToken
        /\ th[t].reheaded = th[t].refreshed
        /\ token = th[t].refreshed

(***************************************************************************)
(* Claims about the time series and the entity comparison                  *)
(***************************************************************************)
\* C21: in a time series the indicator of a number of a financial column
\* tells how it compares with the same column's value in the record just
\* before; the first record has none, and neither has a record whose
\* preceding record has no number there
C21_TrendAgainstPrecedingRecord ==
    (fmt_pc = "formatted" /\ fmt_output.shape = "time_series") =>
        \A i \in DOMAIN fmt_output.blocks :
            \A j \in DOMAIN fmt_output.blocks[i].lines :
                LET l == fmt_output.blocks[i].lines[j]
                IN  (FinancialColumn(l.col) /\ IsNumber(l.value)) =>
                        l.trend =
                            IF i = 1 THEN "none"
                            ELSE IF ~IsNumber(fmt_output.blocks[i - 1].lines[j].value) THEN "none"
                            ELSE IF l.value.c > fmt_output.blocks[i - 1].lines[j].value.c THEN "up"
                            ELSE IF l.value.c < fmt_output.blocks[i - 1].lines[j].value.c THEN "down"
                            ELSE "flat"

\* the column's name marks it as a variance column, as a revenue column
NamedVariance(col) ==
    \/ Contains(Lower(col), kw_variance)
    \/ Contains(Lower(col), kw_difference)
    \/ Contains(Lower(col), kw_dif)
NamedRevenue(col) ==
    \/ Contains(Lower(col), kw_revenue)
    \/ Contains(Lower(col), kw_ca)
    \/ Contains(Lower(col), kw_revenu)

\* the column the claim has the records ordered by: the first variance
\* column, else the first revenue column, <<>> when there is neither
ClaimedSortColumn(columns) ==
    IF SelectSeq(columns, NamedVariance) # <<>> THEN <<SelectSeq(columns, NamedVariance)[1]>>
    ELSE IF SelectSeq(columns, NamedRevenue) # <<>> THEN <<SelectSeq(columns, NamedRevenue)[1]>>
    ELSE <<>>

\* the value of column col in a block of the output: the value of its line,
\* or the block's title when the column gave the block its name
BlockValue(block, col) ==
    IF \E j \in DOMAIN block.lines : block.lines[j].col = col
    THEN block.lines[CHOOSE j \in DOMAIN block.lines : block.lines[j].col = col].value
    ELSE block.title

\* C22: an entity comparison lists its records by falling value of the first
\* variance column, and of the first revenue column when there is no
\* variance column, also when the variance column's name holds "budget" or
\* "bu" (stated for the results whose values in that column are all numbers)
C22_SortedByVarianceThenRevenue ==
    (fmt_pc = "formatted" /\ fmt_output.shape = "bu_comparison") =>
        \A c \in Range(ClaimedSortColumn(Keys(fmt_result.results[1]))) :
            (\A r \in DOMAIN fmt_result.results : IsNumber(RowAt(fmt_result.results[r], c))) =>
                \A i \in 1..(Len(fmt_output.blocks) - 1) :
                    BlockValue(fmt_output.blocks[i], c).c >= BlockValue(fmt_output.blocks[i + 1], c).c

\* C29: an entity comparison has one block for every record of the result,
\* whatever the values of the column that names the entity
C29_EveryRecordRenderedOnce ==
    (fmt_pc = "formatted" /\ fmt_output.shape = "bu_comparison") =>
        Len(fmt_output.blocks) = Len(fmt_result.results)

(***************************************************************************)
(* Claims about the diagnosis and the repair of a query                    *)
(***************************************************************************)
UnbalancedLabel == <<"U","n","b","a","l","a","n","c","e","d"," ","p","a","r","e","n","t","h","e","s","e","s">>

\* none of the defects the diagnosis knows is in the query
NoKnownDefect(query) ==
    /\ ~HasTaggedEvaluate(query)
    /\ ~(Contains(Upper(query), kw_VAR) /\ ~Contains(Upper(query), kw_RETURN))
    /\ Count(query, "(") = Count(query, ")")
    /\ ~HasDoubleBrackets(query)
    /\ ~HasIncorrectN1(query)

RowWrapped(body) ==
    <<"R","O","W","(",DQ,"R","e","s","u","l","t",DQ,","," ">> \o body \o <<")">>

\* the functions whose result is a table already
BeginsWithTableFunction(body) ==
    \E func \in TableFunctions : StartsWith(Upper(body), func)

\* C24: a query whose body begins with CALCULATE( is submitted as EVALUATE
\* ROW("Result", body), whatever stands inside the CALCULATE; a query whose
\* body begins with a table function is submitted as it is
C24_BareCalculateIsWrapped ==
    rep_pc # "start" =>
        /\ StartsWith(Upper(BodyOf(rep_cleaned)), kw_CALCULATE) =>
               /\ StartsWith(rep_submitted, EVALUATE)
               /\ BodyOf(rep_submitted) = RowWrapped(BodyOf(rep_cleaned))
        /\ BeginsWithTableFunction(BodyOf(rep_cleaned)) => rep_submitted = rep_cleaned

\* C25: when a comment stands before CALCULATE( in the body, the repaired
\* query is EVALUATE, the comment as it was, and the CALCULATE expression
\* wrapped in ROW
C25_CommentKeptBeforeRow ==
    rep_pc \in {"fixed", "diagnosed"} =>
        \A comment \in QueryComments \ {<<>>} :
            (/\ StartsWith(BodyOf(rep_submitted), comment)
             /\ StartsWith(Upper(Drop(BodyOf(rep_submitted), Len(comment))), kw_CALCULATE)) =>
                rep_fixed = EVALUATE \o <<"\n">> \o comment \o
                            RowWrapped(Drop(BodyOf(rep_submitted), Len(comment)))

(***************************************************************************)
(* Claims about the accounts and the chat                                  *)
(***************************************************************************)
\* the questions that were saved as a message and handed to the agent
Processed(turn) == \E i \in DOMAIN messages : messages[i].turn = turn /\ messages[i].is_user

\* C26: a question is saved as a message and reaches the agent only when it
\* was sent under the id of a user who is approved and active
C26_OnlyApprovedActiveProcessed ==
    \A turn \in DOMAIN asked : Processed(turn) => ApprovedAndActive(asked[turn].user_id)

MessagesOf(turn, is_user) ==
    {i \in DOMAIN messages : messages[i].turn = turn /\ messages[i].is_user = is_user}

InFlight(turn) == \E s \in Sockets : calls[s].pc = "awaiting" /\ calls[s].turn = turn

\* the conversation id given with the turn names a conversation the user
\* owned when the question came
GivenOwn(turn) ==
    /\ asked[turn].conversation_id \in 1..asked[turn].before
    /\ conversations[asked[turn].conversation_id] = asked[turn].user_id

C28_ResponseOnSendingConnection ==
    /\ delivered.to = delivered.from
    /\ \A s \in Sockets : ws[s].pc # "closed" => active_connections[ws[s].user_id] = s

\* C30: an approved and active admin remains
C30_AnAdminRemains ==
    \E u \in UserIds : ApprovedAndActive(u) /\ users[u].role = "admin"

====
